---------------------------- MODULE Spec2Model ----------------------------
(***************************************************************************)
(* Streaming sessions of the gradium Go SDK: TTSStream (tts.go) and        *)
(* STTStream (stt.go).  One session is modelled: the dispatcher goroutine  *)
(* handleMessages, the ready / done signals, the error register, the       *)
(* buffered result channels, and the caller-side operations WaitReady and  *)
(* channel receives.                                                       *)
(*                                                                         *)
(* Conventions.  A Go channel is a buffer (a sequence) plus the number of  *)
(* close() calls executed on it; a second close, or a send on a closed     *)
(* channel, is a Go panic and sets the variable panicked.  float64 seconds *)
(* are written as integer milliseconds.  An optional *int is a sequence of *)
(* length 0 (nil) or 1.  Byte strings and base64 text are sequences of     *)
(* integers.                                                               *)
(***************************************************************************)
EXTENDS Integers, Sequences, FiniteSets, TLC

(***************************************************************************)
(* Bounds of the model.                                                    *)
(***************************************************************************)
\* Non-terminal frames the server may send in one session (Spec).
MaxFrames == 2
\* WaitReady calls the caller makes in one session.
MaxWaits == 2
\* Frames by which the flooded category may exceed its channel's capacity (SpecFlood).
FloodOver == 2
\* Frames of a second category that may follow the flooded one (SpecFlood).
FloodOther == 2
\* Items the caller receives in one flooding session (SpecFlood).
FloodRecvs == 11
\* Callers that may be inside Close at the same time (SpecClose).
NumClosers == 2
\* Close calls made on one stream (SpecClose, SpecSend).
MaxCloses == 3
\* Non-terminal frames the server may send in one session (SpecClose).
CloseFrames == 1
\* Send calls made on one stream (SpecSend).
MaxSends == 2
\* Collect / CollectText calls made on one stream (SpecCollect).
MaxCollects == 2
\* Data frames the server sends before end_of_stream (SpecAll).
AllFrames == 3
\* Full chunks in the longest audio given to Transcribe (SpecOneShot).
MaxChunks == 2
\* The largest HTTP status a response carries (SpecAPI).
MaxStatus == 599
\* Characters in the longest Retry-After header (SpecAPI).
MaxHeaderLen == 2
\* Callers that may be inside a Send operation at the same time (SpecWriters).
NumSenders == 2

(***************************************************************************)
(* Program constants: the capacities given to make(chan ..., n).           *)
(***************************************************************************)
AudioChCap == 100
TextChCap == 100
VadChCap == 100
EndTextChCap == 10
AllMsgChCap == 100

msgTypeReady == "ready"
msgTypeError == "error"
msgTypeEndOfStream == "end_of_stream"
modelNameDefault == "default"
\* Transcribe: chunkSize := 1920 * 2, 80 ms of 24 kHz 16-bit audio.
chunkSize == 3840

\* The channels a stream of each kind owns, and their capacities.
ResultChans(k) ==
    IF k = "tts" THEN {"audioCh"}
    ELSE {"textCh", "vadCh", "endTextCh", "allMsgCh"}

AllChans == {"ready", "done", "audioCh", "textCh", "vadCh", "endTextCh", "allMsgCh"}

Cap(c) ==
    CASE c = "audioCh" -> AudioChCap
      [] c = "textCh" -> TextChCap
      [] c = "vadCh" -> VadChCap
      [] c = "endTextCh" -> EndTextChCap
      [] c = "allMsgCh" -> AllMsgChCap
      [] OTHER -> 0

(***************************************************************************)
(* base64.StdEncoding.  Text is a sequence of sextet values 0..63, Pad     *)
(* for '=' and BadChar for a character outside the alphabet.               *)
(***************************************************************************)
Pad == 64
BadChar == 65

\* Every 3 bytes make 4 characters; a last group of 1 or 2 bytes is padded.
EncodeToString(b) ==
    LET n == Len(b)
        at(j) == IF j <= n THEN b[j] ELSE 0
        char(i) ==
            LET g == 3 * ((i - 1) \div 4)
                b1 == at(g + 1)
                b2 == at(g + 2)
                b3 == at(g + 3)
            IN  CASE (i - 1) % 4 = 0 -> b1 \div 4
                  [] (i - 1) % 4 = 1 -> (b1 % 4) * 16 + (b2 \div 16)
                  [] (i - 1) % 4 = 2 ->
                        IF g + 2 > n THEN Pad ELSE (b2 % 16) * 4 + (b3 \div 64)
                  [] OTHER -> IF g + 3 > n THEN Pad ELSE b3 % 64
    IN  [i \in 1..(4 * ((n + 2) \div 3)) |-> char(i)]

\* DecodeString: [err |-> BOOLEAN, bytes |-> the decoded bytes when err is FALSE].
DecodeString(s) ==
    LET n == Len(s)
        quads == n \div 4
        sext(i) == s[i] \in 0..63
        \* Quad k is malformed: a character outside the alphabet, or padding
        \* anywhere but at the end of the last quad.
        badQuad(k) ==
            LET o == 4 * (k - 1)
                last == k = quads
            IN  \/ ~(sext(o + 1) /\ sext(o + 2))
                \/ IF s[o + 3] = Pad THEN ~(last /\ s[o + 4] = Pad)
                   ELSE \/ ~sext(o + 3)
                        \/ IF s[o + 4] = Pad THEN ~last ELSE ~sext(o + 4)
        pads == IF quads = 0 THEN 0
                ELSE IF s[n - 1] = Pad THEN 2
                ELSE IF s[n] = Pad THEN 1
                ELSE 0
        byte(j) ==
            LET o == 4 * ((j - 1) \div 3)
            IN  CASE (j - 1) % 3 = 0 -> s[o + 1] * 4 + (s[o + 2] \div 16)
                  [] (j - 1) % 3 = 1 -> (s[o + 2] % 16) * 16 + (s[o + 3] \div 4)
                  [] OTHER -> (s[o + 3] % 4) * 64 + s[o + 4]
    IN  IF n % 4 # 0 \/ \E k \in 1..quads : badQuad(k)
        THEN [err |-> TRUE, bytes |-> << >>]
        ELSE [err |-> FALSE, bytes |-> [j \in 1..(3 * quads - pads) |-> byte(j)]]

(***************************************************************************)
(* Inbound frames.  A frame is what ReadMessage returns as data:           *)
(*   env   whether json.Unmarshal into wsMessage succeeds;                 *)
(*   type  the value of the "type" key;                                    *)
(*   bad   the keys whose JSON value has the wrong type for the struct the *)
(*         frame is unmarshalled into next.                                *)
(* json.Unmarshal then returns an error iff bad is not empty, and leaves   *)
(* the fields of the bad keys at their zero value while filling the rest.  *)
(***************************************************************************)
Field(f, key, zero) == IF key \in f.bad THEN zero ELSE f[key]
UnmarshalErr(f) == f.bad # {}

Garbage == [env |-> FALSE, type |-> "", bad |-> {}]
Unknown == [env |-> TRUE, type |-> "pong", bad |-> {}]
EndOfStream == [env |-> TRUE, type |-> msgTypeEndOfStream, bad |-> {}]

ErrorFrame(m, c, bad) ==
    [env |-> TRUE, type |-> msgTypeError, message |-> m, code |-> c, bad |-> bad]

TTSReady(id, bad) ==
    [env |-> TRUE, type |-> msgTypeReady, request_id |-> id, bad |-> bad]

STTReady(id, rate, bad) ==
    [env |-> TRUE, type |-> msgTypeReady, request_id |-> id, model_name |-> "default",
     sample_rate |-> rate, frame_size |-> 1920, delay_in_tokens |-> 6,
     text_stream_names |-> << "main" >>, bad |-> bad]

AudioFrame(a, bad) == [env |-> TRUE, type |-> "audio", audio |-> a, bad |-> bad]

TextFrame(t, s, bad) ==
    [env |-> TRUE, type |-> "text", text |-> t, start_s |-> s, stream_id |-> << >>,
     bad |-> bad]

StepFrame(i, bad) ==
    [env |-> TRUE, type |-> "step", vad |-> << [HorizonS |-> 500, InactivityProb |-> 100] >>,
     step_idx |-> i, step_duration_s |-> 80, total_duration_s |-> 80 * (i + 1),
     bad |-> bad]

EndTextFrame(s, bad) ==
    [env |-> TRUE, type |-> "end_text", stop_s |-> s, stream_id |-> << 0 >>, bad |-> bad]

\* The byte strings "ab" and "cd".
BytesAB == << 97, 98 >>
BytesCD == << 99, 100 >>

ErrorFrames ==
    { ErrorFrame("Invalid voice ID", 400, {}), ErrorFrame("Invalid voice ID", 400, {"code"}) }

TTSFrames ==
    { Garbage, Unknown, EndOfStream,
      TTSReady("req-1", {}), TTSReady("req-2", {}), TTSReady("req-1", {"request_id"}),
      AudioFrame(EncodeToString(BytesAB), {}), AudioFrame(EncodeToString(BytesCD), {}),
      AudioFrame(<< 24, 22, BadChar, Pad >>, {}), AudioFrame(<< >>, {"audio"}) }
    \cup ErrorFrames

STTFrames ==
    { Garbage, Unknown, EndOfStream,
      STTReady("req-1", 24000, {}), STTReady("req-2", 16000, {}),
      STTReady("req-1", 24000, {"sample_rate"}),
      TextFrame("Hello", 0, {}), TextFrame("world", 500, {}),
      TextFrame("Hello", 0, {"start_s"}),
      StepFrame(0, {}), StepFrame(0, {"vad"}),
      EndTextFrame(1500, {}), EndTextFrame(1500, {"stop_s"}) }
    \cup ErrorFrames

Frames(k) == IF k = "tts" THEN TTSFrames ELSE STTFrames

(***************************************************************************)
(* Session state.                                                          *)
(***************************************************************************)
VARIABLES
    kind,           \* "tts" (TTSStream) or "stt" (STTStream)
    requestID,      \* TTSStream.requestID
    readyInfo,      \* STTStream.readyInfo: << >> is nil, << info >> a pointer
    err,            \* s.err: << >> is nil, << e >> a *WebSocketError
    closes,         \* closes[c]: close() calls executed on channel c
    buf,            \* buf[c]: the items buffered in result channel c
    panicked,       \* a goroutine panicked (double close, send on closed channel)
    drops,          \* history: drops[c]: publishes that found channel c full
    dpc,            \* handleMessages: "read", "signal", "pubAll", "errSignal",
                    \*   "defer", "exited"
    readySignaled,  \* the local of handleMessages
    item,           \* the local result of handleMessages, between its two publishes
    defers,         \* the deferred calls of handleMessages, in registration order
    recvd,          \* history: the frames ReadMessage has returned, in order
    readErr,        \* history: ReadMessage has returned an error
    wpc,            \* the WaitReady call in progress: "idle", "getError", "return"
    werr,           \* the local err of the WaitReady call in progress
    waits,          \* history: the outcomes of the WaitReady calls that returned
    got,            \* history: got[c] are the items the caller received from c
    sawClosed,      \* history: sawClosed[c]: a receive from c reported closed
    stream,         \* what Stream returned: << >> before it returns
    conn,           \* the websocket connection: "nil", "open", "closed"
    connCloses,     \* history: the executions of conn.Close()
    closeOnce,      \* s.closeOnce: "new", "running" (inside Do), "done"
    closer,         \* closer[p]: the Close call of caller p: its position pc ("idle",
                    \*   "do", "f", "return"), its local err, whether it ran the
                    \*   function given to Do, whether a Close had returned before it
    closeRets,      \* history: the Close calls that returned, in order
    outbound,       \* history: the frames written to the connection, in order
    sends,          \* history: the Send calls that returned, in order
    kpc,            \* the Collect / CollectText call in progress: "idle", "loop",
                    \*   "closed"
    chunks,         \* the local chunks (TTS) or texts (STT) of that call
    totalLen,       \* the local totalLen of that call (TTS)
    collects,       \* history: the Collect / CollectText calls that returned
    resp,           \* the *http.Response given to handleAPIError: << >> is none
    apiErr,         \* << >> until handleAPIError returns, then << v >> with v the
                    \*   error it returned: << >> is nil, << e >> an error value
    audioArg,       \* the audio given to Transcribe: << >> before the call, then << a >>
    writing,        \* per sending caller: << >>, or << call >> while it is inside conn.WriteJSON
    readyInfoMu,    \* STT readyInfoMu: "free", "W" (Lock held) or "R" (RLock held)
    reader          \* the caller reading the ready data: << >>, or << [op, pc] >>

sessVars == << kind, requestID, readyInfo, err, closes, buf, panicked, drops >>
dispVars == << dpc, readySignaled, item, defers, recvd, readErr >>
waitVars == << wpc, werr, waits >>
recvVars == << got, sawClosed >>
connVars == << conn, connCloses, closeOnce, closer, closeRets >>
sendVars == << outbound, sends >>
collVars == << kpc, chunks, totalLen, collects >>
apiVars == << resp, apiErr >>
guardVars == << readyInfoMu, reader >>
callVars == << audioArg, writing, guardVars >>
ioVars == << stream, connVars, sendVars, collVars, apiVars, callVars >>
vars == << sessVars, dispVars, waitVars, recvVars, ioVars >>

Nil == << >>
IsClosed(c) == closes[c] > 0

\* Defers with a copied line: close(s.textCh) deferred twice, close(s.vadCh) never;
\* for TTS, close(s.audioCh) deferred twice.
DefersCopied(k) ==
    IF k = "tts" THEN << "done", "audioCh", "audioCh" >>
    ELSE << "done", "textCh", "textCh", "endTextCh", "allMsgCh" >>

\* Defers with close(s.done) deferred last, so that it runs first.
DefersDoneLast(k) ==
    IF k = "tts" THEN << "audioCh", "done" >>
    ELSE << "textCh", "vadCh", "endTextCh", "allMsgCh", "done" >>

\* defer statements of handleMessages, in the order they are registered.
Defers(k) ==
    IF k = "tts" THEN << "done", "audioCh" >>
    ELSE << "done", "textCh", "vadCh", "endTextCh", "allMsgCh" >>

\* The callers that may be inside Close at the same time.
Closers == 1..NumClosers

\* The callers that may be inside a Send operation at the same time.
Senders == 1..NumSenders

\* The parameters of Stream: ModelName is left empty or set.
Params(k) ==
    IF k = "tts"
    THEN { [VoiceID |-> "voice-1", OutputFormat |-> "wav", ModelName |-> m] :
             m \in {"", "custom"} }
    ELSE { [InputFormat |-> "pcm", ModelName |-> m] : m \in {"", "custom"} }

DefaultParams(k) == CHOOSE p \in Params(k) : p.ModelName = ""

\* The setup message Stream builds from its parameters.
SetupMessage(k, p) ==
    LET modelName == IF p.ModelName = "" THEN modelNameDefault ELSE p.ModelName
    IN  IF k = "tts"
        THEN [type |-> "setup", voice_id |-> p.VoiceID, output_format |-> p.OutputFormat,
              model_name |-> modelName]
        ELSE [type |-> "setup", input_format |-> p.InputFormat, model_name |-> modelName]

\* A caller that is not inside Close.
NotClosing == [pc |-> "idle", err |-> Nil, ran |-> FALSE, after |-> FALSE]

\* What Stream returns: the stream handle and the error.
Opened == [handle |-> TRUE, err |-> Nil]
Failed(e) == [handle |-> FALSE, err |-> << e >>]

\* The caller holds a stream: Stream returned one.
HasStream == stream = << Opened >>

\* The state Stream returns: channels made, setup sent, handleMessages started.
InitKind(k) ==
    /\ kind = k
    /\ requestID = ""
    /\ readyInfo = Nil
    /\ err = Nil
    /\ closes = [c \in AllChans |-> 0]
    /\ buf = [c \in AllChans |-> << >>]
    /\ panicked = FALSE
    /\ drops = [c \in AllChans |-> 0]
    /\ dpc = "read"
    /\ readySignaled = FALSE
    /\ item = Nil
    /\ defers = Defers(k)
    /\ recvd = << >>
    /\ readErr = FALSE
    /\ wpc = "idle"
    /\ werr = Nil
    /\ waits = << >>
    /\ got = [c \in AllChans |-> << >>]
    /\ sawClosed = [c \in AllChans |-> FALSE]
    /\ stream = << Opened >>
    /\ conn = "open"
    /\ connCloses = 0
    /\ closeOnce = "new"
    /\ closer = [p \in Closers |-> NotClosing]
    /\ closeRets = << >>
    /\ outbound = << SetupMessage(k, DefaultParams(k)) >>
    /\ sends = << >>
    /\ kpc = "idle"
    /\ chunks = << >>
    /\ totalLen = 0
    /\ collects = << >>
    /\ resp = Nil
    /\ apiErr = Nil
    /\ audioArg = Nil
    /\ writing = [p \in Senders |-> Nil]
    /\ readyInfoMu = "free"
    /\ reader = Nil

Init == \E k \in {"tts", "stt"} : InitKind(k)


(***************************************************************************)
(* Channel primitives.                                                     *)
(***************************************************************************)
\* TrySend with the room test off by one: the last slot of the buffer is never used.
TrySendOffByOne(b, c, v) ==
    IF Len(b[c]) < Cap(c) - 1 THEN [b EXCEPT ![c] = Append(@, v)] ELSE b

\* TrySend that makes room on a full channel by discarding the oldest item.
TrySendDropOldest(b, c, v) ==
    IF Len(b[c]) < Cap(c) THEN [b EXCEPT ![c] = Append(@, v)]
    ELSE [b EXCEPT ![c] = Append(Tail(@), v)]

\* TrySend that puts the value at the front of the buffer.
TrySendFront(b, c, v) ==
    IF Len(b[c]) < Cap(c) THEN [b EXCEPT ![c] = << v >> \o @] ELSE b

\* select { case ch <- v: default: }: the value is buffered when the channel
\* has room and is dropped otherwise.
TrySend(b, c, v) ==
    IF Len(b[c]) < Cap(c) THEN [b EXCEPT ![c] = Append(@, v)] ELSE b

\* The default branch of that select is taken.
Full(b, c) == Len(b[c]) >= Cap(c)

\* A send statement executed on channel c: a panic when c is closed.
SendPanics(c) == IsClosed(c)

\* close(c): a panic when c is already closed.
CloseChan(c) ==
    /\ closes' = [closes EXCEPT ![c] = @ + 1]
    /\ panicked' = (panicked \/ IsClosed(c))

(***************************************************************************)
(* The error register.                                                     *)
(***************************************************************************)
\* setError without the test of s.err: the last error wins.
setErrorLastWins(e) == << e >>

\* setError: the value of s.err after the call.
setError(e) == IF err = Nil THEN << e >> ELSE err

\* getError: the value returned.
getError == err

ReadErrorValue == [Message |-> "read error", Code |-> 0]

(***************************************************************************)
(* handleMessages.                                                         *)
(***************************************************************************)
\* The branch the loop body takes for frame f, after the first Unmarshal.
Route(k, f) ==
    IF ~f.env THEN "continue"
    ELSE IF f.type = msgTypeReady THEN "ready"
    ELSE IF f.type = msgTypeEndOfStream THEN "end_of_stream"
    ELSE IF f.type = msgTypeError THEN "error"
    ELSE IF k = "tts" /\ f.type = "audio" THEN "audio"
    ELSE IF k = "stt" /\ f.type \in {"text", "step", "end_text"} THEN f.type
    ELSE "continue"

\* The channel of each category.
CategoryChan(r) ==
    CASE r = "audio" -> "audioCh"
      [] r = "text" -> "textCh"
      [] r = "step" -> "vadCh"
      [] r = "end_text" -> "endTextCh"

\* The result built from a frame of a data category: [ok, value].
Decode(r, f) ==
    CASE r = "audio" ->
            LET d == DecodeString(Field(f, "audio", << >>))
            IN  [ok |-> ~UnmarshalErr(f) /\ ~d.err, value |-> d.bytes]
      [] r = "text" ->
            [ok |-> ~UnmarshalErr(f),
             value |-> [Text |-> Field(f, "text", ""), StartS |-> Field(f, "start_s", 0),
                        StreamID |-> Field(f, "stream_id", << >>)]]
      [] r = "step" ->
            [ok |-> ~UnmarshalErr(f),
             value |-> [VAD |-> Field(f, "vad", << >>), StepIdx |-> Field(f, "step_idx", 0),
                        StepDurationS |-> Field(f, "step_duration_s", 0),
                        TotalDurationS |-> Field(f, "total_duration_s", 0)]]
      [] r = "end_text" ->
            [ok |-> ~UnmarshalErr(f),
             value |-> [StopS |-> Field(f, "stop_s", 0),
                        StreamID |-> Field(f, "stream_id", << >>)]]

\* The STTReadyInfo built from a ready frame.
ReadyInfoOf(f) ==
    [RequestID |-> Field(f, "request_id", ""), ModelName |-> Field(f, "model_name", ""),
     SampleRate |-> Field(f, "sample_rate", 0), FrameSize |-> Field(f, "frame_size", 0),
     DelayInTokens |-> Field(f, "delay_in_tokens", 0),
     TextStreamNames |-> Field(f, "text_stream_names", << >>)]

\* ErrorOf that copies the message alone.
ErrorOfNoCode(f) == [Message |-> Field(f, "message", ""), Code |-> 0]

\* The WebSocketError built from an error frame.
ErrorOf(f) == [Message |-> Field(f, "message", ""), Code |-> Field(f, "code", 0)]

\* ReadMessage returns frame f: the connection has not been closed.
Read(f) ==
    /\ ~panicked
    /\ dpc = "read"
    /\ conn = "open"
    /\ recvd' = Append(recvd, f)
    /\ UNCHANGED << readErr, waitVars, recvVars, ioVars >>

\* HandleContinue that treats the frame as fatal: the error is recorded and
\* the loop is left.
HandleContinueFatal(f) ==
    /\ Read(f)
    /\ LET r == Route(kind, f)
       IN  \/ r = "continue"
           \/ r \in {"audio", "text", "step", "end_text"} /\ ~Decode(r, f).ok
    /\ err' = setError([Message |-> "invalid message", Code |-> 0])
    /\ dpc' = "errSignal"
    /\ UNCHANGED << kind, drops, requestID, readyInfo, closes, buf, panicked, readySignaled,
                    item, defers >>

\* A frame that is dropped: not an envelope, an unknown type, a payload of a
\* data category that does not unmarshal, audio that is not base64.
HandleContinue(f) ==
    /\ Read(f)
    /\ LET r == Route(kind, f)
       IN  \/ r = "continue"
           \/ r \in {"audio", "text", "step", "end_text"} /\ ~Decode(r, f).ok
    /\ UNCHANGED << sessVars, dpc, readySignaled, item, defers >>

\* case msgTypeReady, up to the store of the ready data.
HandleReady(f) ==
    /\ Read(f)
    /\ Route(kind, f) = "ready"
    /\ IF kind = "tts"
       THEN /\ requestID' = Field(f, "request_id", "")
            /\ UNCHANGED readyInfo
       ELSE /\ readyInfo' = << ReadyInfoOf(f) >>
            /\ UNCHANGED requestID
    /\ dpc' = "signal"
    /\ UNCHANGED << kind, drops, err, closes, buf, panicked, readySignaled, item, defers >>

\* case msgTypeReady: if !readySignaled { close(s.ready); readySignaled = true }.
SignalReady ==
    /\ ~panicked
    /\ dpc = "signal"
    /\ IF ~readySignaled
       THEN CloseChan("ready")
       ELSE UNCHANGED << closes, panicked >>
    /\ readySignaled' = TRUE
    /\ dpc' = "read"
    /\ UNCHANGED << kind, drops, requestID, readyInfo, err, buf, item, defers, recvd, readErr,
                    waitVars, recvVars, ioVars >>

\* HandleItem with a plain send: on a full channel the dispatcher parks in the send.
HandleItemBlocking(f) ==
    /\ Read(f)
    /\ LET r == Route(kind, f)
       IN  /\ r \in {"audio", "text", "step", "end_text"}
           /\ Decode(r, f).ok
           /\ panicked' = SendPanics(CategoryChan(r))
           /\ UNCHANGED drops
           /\ IF Full(buf, CategoryChan(r))
              THEN /\ dpc' = "blocked"
                   /\ UNCHANGED << buf, item >>
              ELSE /\ buf' = TrySend(buf, CategoryChan(r), Decode(r, f).value)
                   /\ IF kind = "stt"
                      THEN /\ item' = << Decode(r, f).value >>
                           /\ dpc' = "pubAll"
                      ELSE UNCHANGED << item, dpc >>
    /\ UNCHANGED << kind, requestID, readyInfo, err, closes, readySignaled, defers >>

\* HandleItem that gives up on an item its own channel has no room for: the
\* publish to allMsgCh is attempted only after a publish that succeeded.
HandleItemSkipsAllOnDrop(f) ==
    /\ Read(f)
    /\ LET r == Route(kind, f)
       IN  /\ r \in {"audio", "text", "step", "end_text"}
           /\ Decode(r, f).ok
           /\ buf' = TrySend(buf, CategoryChan(r), Decode(r, f).value)
           /\ drops' = [drops EXCEPT ![CategoryChan(r)] =
                            IF Full(buf, CategoryChan(r)) THEN @ + 1 ELSE @]
           /\ panicked' = SendPanics(CategoryChan(r))
           /\ IF kind = "stt" /\ ~Full(buf, CategoryChan(r))
              THEN /\ item' = << Decode(r, f).value >>
                   /\ dpc' = "pubAll"
              ELSE UNCHANGED << item, dpc >>
    /\ UNCHANGED << kind, requestID, readyInfo, err, closes, readySignaled, defers >>

\* A well-formed frame of a data category: the publish to its own channel.
HandleItem(f) ==
    /\ Read(f)
    /\ LET r == Route(kind, f)
       IN  /\ r \in {"audio", "text", "step", "end_text"}
           /\ Decode(r, f).ok
           /\ buf' = TrySend(buf, CategoryChan(r), Decode(r, f).value)
           /\ drops' = [drops EXCEPT ![CategoryChan(r)] =
                            IF Full(buf, CategoryChan(r)) THEN @ + 1 ELSE @]
           /\ panicked' = SendPanics(CategoryChan(r))
           /\ IF kind = "stt"
              THEN /\ item' = << Decode(r, f).value >>
                   /\ dpc' = "pubAll"
              ELSE UNCHANGED << item, dpc >>
    /\ UNCHANGED << kind, requestID, readyInfo, err, closes, readySignaled, defers >>

\* PublishAll that mirrors text results alone.
PublishAllTextOnly ==
    /\ ~panicked
    /\ dpc = "pubAll"
    /\ buf' = IF "Text" \in DOMAIN item[1] THEN TrySend(buf, "allMsgCh", item[1]) ELSE buf
    /\ drops' = [drops EXCEPT !["allMsgCh"] = IF Full(buf, "allMsgCh") THEN @ + 1 ELSE @]
    /\ panicked' = SendPanics("allMsgCh")
    /\ item' = Nil
    /\ dpc' = "read"
    /\ UNCHANGED << kind, requestID, readyInfo, err, closes, readySignaled, defers,
                    recvd, readErr, waitVars, recvVars, ioVars >>

\* The second publish of an STT result, to allMsgCh.
PublishAll ==
    /\ ~panicked
    /\ dpc = "pubAll"
    /\ buf' = TrySend(buf, "allMsgCh", item[1])
    /\ drops' = [drops EXCEPT !["allMsgCh"] = IF Full(buf, "allMsgCh") THEN @ + 1 ELSE @]
    /\ panicked' = SendPanics("allMsgCh")
    /\ item' = Nil
    /\ dpc' = "read"
    /\ UNCHANGED << kind, requestID, readyInfo, err, closes, readySignaled, defers,
                    recvd, readErr, waitVars, recvVars, ioVars >>

\* HandleEndOfStream that goes on to the next read: continue instead of return.
HandleEndOfStreamContinues(f) ==
    /\ Read(f)
    /\ Route(kind, f) = "end_of_stream"
    /\ dpc' = "read"
    /\ UNCHANGED << sessVars, readySignaled, item, defers >>

\* case msgTypeEndOfStream: return.
HandleEndOfStream(f) ==
    /\ Read(f)
    /\ Route(kind, f) = "end_of_stream"
    /\ dpc' = "defer"
    /\ UNCHANGED << sessVars, readySignaled, item, defers >>

\* HandleError that records the error only while the ready signal is pending.
HandleErrorBeforeReadyOnly(f) ==
    /\ Read(f)
    /\ Route(kind, f) = "error"
    /\ err' = IF readySignaled THEN err ELSE setError(ErrorOf(f))
    /\ dpc' = "errSignal"
    /\ UNCHANGED << kind, drops, requestID, readyInfo, closes, buf, panicked, readySignaled,
                    item, defers >>

\* case msgTypeError, up to setError.
HandleError(f) ==
    /\ Read(f)
    /\ Route(kind, f) = "error"
    /\ err' = setError(ErrorOf(f))
    /\ dpc' = "errSignal"
    /\ UNCHANGED << kind, drops, requestID, readyInfo, closes, buf, panicked, readySignaled,
                    item, defers >>

\* ReadError that leaves the error register alone.
ReadErrorUnrecorded ==
    /\ ~panicked
    /\ dpc = "read"
    /\ readErr' = TRUE
    /\ dpc' = "errSignal"
    /\ UNCHANGED << sessVars, readySignaled, item, defers, recvd, waitVars, recvVars, ioVars >>

\* ReadError that goes on to the next read instead of returning.
ReadErrorRetries ==
    /\ ~panicked
    /\ dpc = "read"
    /\ readErr' = TRUE
    /\ UNCHANGED << sessVars, dpc, readySignaled, item, defers, recvd, waitVars, recvVars,
                    ioVars >>

\* ReadMessage returns an error, up to setError.
ReadError ==
    /\ ~panicked
    /\ dpc = "read"
    /\ readErr' = TRUE
    /\ err' = setError(ReadErrorValue)
    /\ dpc' = "errSignal"
    /\ UNCHANGED << kind, drops, requestID, readyInfo, closes, buf, panicked, readySignaled,
                    item, defers, recvd, waitVars, recvVars, ioVars >>

\* ErrorSignal with the readySignaled test left out: close(s.ready) unconditionally.
ErrorSignalNoGuard ==
    /\ ~panicked
    /\ dpc = "errSignal"
    /\ CloseChan("ready")
    /\ dpc' = "defer"
    /\ UNCHANGED << kind, drops, requestID, readyInfo, err, buf, readySignaled, item, defers,
                    recvd, readErr, waitVars, recvVars, ioVars >>

\* After setError: if !readySignaled { close(s.ready) }; return.
ErrorSignal ==
    /\ ~panicked
    /\ dpc = "errSignal"
    /\ IF ~readySignaled
       THEN CloseChan("ready")
       ELSE UNCHANGED << closes, panicked >>
    /\ dpc' = "defer"
    /\ UNCHANGED << kind, drops, requestID, readyInfo, err, buf, readySignaled, item, defers,
                    recvd, readErr, waitVars, recvVars, ioVars >>

\* The function returns: the deferred closes run one by one, last registered first.
RunDefer ==
    /\ ~panicked
    /\ dpc = "defer"
    /\ defers # << >>
    /\ CloseChan(defers[Len(defers)])
    /\ defers' = SubSeq(defers, 1, Len(defers) - 1)
    /\ dpc' = IF Len(defers) = 1 THEN "exited" ELSE "defer"
    /\ UNCHANGED << kind, drops, requestID, readyInfo, err, buf, readySignaled, item,
                    recvd, readErr, waitVars, recvVars, ioVars >>

(***************************************************************************)
(* WaitReady.                                                              *)
(***************************************************************************)
CtxOutcome == [ctx |-> TRUE, err |-> Nil, info |-> Nil]
Outcome(e, i) == [ctx |-> FALSE, err |-> e, info |-> i]

\* select: case <-s.ready.
WaitReadySelect ==
    /\ ~panicked
    /\ wpc = "idle"
    /\ Len(waits) < MaxWaits
    /\ IsClosed("ready")
    /\ wpc' = "getError"
    /\ UNCHANGED << sessVars, dispVars, werr, waits, recvVars, ioVars >>

\* s.getError(); TTS returns it, STT returns (nil, err) when it is not nil.
WaitReadyGetError ==
    /\ ~panicked
    /\ wpc = "getError"
    /\ IF kind = "tts" \/ getError # Nil
       THEN /\ waits' = Append(waits, Outcome(getError, Nil))
            /\ wpc' = "idle"
            /\ werr' = Nil
       ELSE /\ wpc' = "return"
            /\ werr' = getError
            /\ UNCHANGED waits
    /\ UNCHANGED << sessVars, dispVars, recvVars, ioVars >>

\* STT: return s.readyInfo, nil.
WaitReadyReturn ==
    /\ ~panicked
    /\ wpc = "return"
    /\ waits' = Append(waits, Outcome(Nil, readyInfo))
    /\ wpc' = "idle"
    /\ werr' = Nil
    /\ UNCHANGED << sessVars, dispVars, recvVars, ioVars >>

\* WaitReadyCtxDone that records the context's error in the error register.
WaitReadyCtxDoneSetsError ==
    /\ ~panicked
    /\ wpc = "idle"
    /\ Len(waits) < MaxWaits
    /\ waits' = Append(waits, CtxOutcome)
    /\ err' = setError([Message |-> "context deadline exceeded", Code |-> 0])
    /\ UNCHANGED << kind, drops, requestID, readyInfo, closes, buf, panicked, dispVars,
                    wpc, werr, recvVars, ioVars >>

\* select: case <-ctx.Done(): return ctx.Err().
WaitReadyCtxDone ==
    /\ ~panicked
    /\ wpc = "idle"
    /\ Len(waits) < MaxWaits
    /\ waits' = Append(waits, CtxOutcome)
    /\ UNCHANGED << sessVars, dispVars, wpc, werr, recvVars, ioVars >>

(***************************************************************************)
(* The caller receives from a result channel: v, ok := <-c.                *)
(***************************************************************************)
Receive(c) ==
    /\ ~panicked
    /\ c \in ResultChans(kind)
    /\ \/ /\ buf[c] # << >>
          /\ got' = [got EXCEPT ![c] = Append(@, Head(buf[c]))]
          /\ buf' = [buf EXCEPT ![c] = Tail(@)]
          /\ UNCHANGED sawClosed
       \/ /\ buf[c] = << >>
          /\ IsClosed(c)
          /\ ~sawClosed[c]
          /\ sawClosed' = [sawClosed EXCEPT ![c] = TRUE]
          /\ UNCHANGED << got, buf >>
    /\ UNCHANGED << kind, drops, requestID, readyInfo, err, closes, panicked, dispVars, waitVars, ioVars >>

(***************************************************************************)
(* Stream: dial, build the stream, write the setup message, start          *)
(* handleMessages.                                                         *)
(***************************************************************************)
\* The state before Stream is called on the service of kind k.
InitOpen ==
    \E k \in {"tts", "stt"} :
        /\ kind = k
        /\ requestID = ""
        /\ readyInfo = Nil
        /\ err = Nil
        /\ closes = [c \in AllChans |-> 0]
        /\ buf = [c \in AllChans |-> << >>]
        /\ panicked = FALSE
        /\ drops = [c \in AllChans |-> 0]
        /\ dpc = "none"
        /\ readySignaled = FALSE
        /\ item = Nil
        /\ defers = << >>
        /\ recvd = << >>
        /\ readErr = FALSE
        /\ wpc = "idle"
        /\ werr = Nil
        /\ waits = << >>
        /\ got = [c \in AllChans |-> << >>]
        /\ sawClosed = [c \in AllChans |-> FALSE]
        /\ stream = Nil
        /\ conn = "nil"
        /\ connCloses = 0
        /\ closeOnce = "new"
        /\ closer = [p \in Closers |-> NotClosing]
        /\ closeRets = << >>
        /\ outbound = << >>
        /\ sends = << >>
        /\ kpc = "idle"
        /\ chunks = << >>
        /\ totalLen = 0
        /\ collects = << >>
        /\ resp = Nil
        /\ apiErr = Nil
        /\ audioArg = Nil
        /\ writing = [p \in Senders |-> Nil]
        /\ readyInfoMu = "free"
        /\ reader = Nil

\* The errors Stream returns.
DialError == [Type |-> "ConnectionError", Message |-> "failed to connect to WebSocket"]
SetupError == [Type |-> "WebSocketError", Message |-> "failed to send setup message", Code |-> 0]

\* DialContext: the connection is made (ok) or Stream returns the error.
StreamDial(ok) ==
    /\ stream = Nil
    /\ conn = "nil"
    /\ IF ok
       THEN /\ conn' = "open"
            /\ UNCHANGED stream
       ELSE /\ stream' = << Failed(DialError) >>
            /\ UNCHANGED conn
    /\ UNCHANGED << sessVars, dispVars, waitVars, recvVars, connCloses, closeOnce, closer,
                    closeRets, sendVars, collVars, apiVars, callVars >>

\* StreamSetup that returns on a failed write without closing the connection.
StreamSetupLeavesConnOpen(p, ok) ==
    /\ stream = Nil
    /\ conn = "open"
    /\ outbound = << >>
    /\ p \in Params(kind)
    /\ IF ok
       THEN /\ outbound' = << SetupMessage(kind, p) >>
            /\ UNCHANGED stream
       ELSE /\ stream' = << Failed(SetupError) >>
            /\ UNCHANGED outbound
    /\ UNCHANGED << sessVars, dispVars, waitVars, recvVars, conn, connCloses, closeOnce,
                    closer, closeRets, sends, collVars, apiVars, callVars >>

\* StreamSetup that sends the caller's ModelName as it is, empty or not.
StreamSetupNoDefault(p, ok) ==
    /\ stream = Nil
    /\ conn = "open"
    /\ outbound = << >>
    /\ p \in Params(kind)
    /\ IF ok
       THEN /\ outbound' = << [SetupMessage(kind, p) EXCEPT !.model_name = p.ModelName] >>
            /\ UNCHANGED << stream, conn, connCloses >>
       ELSE /\ conn' = "closed"
            /\ connCloses' = connCloses + 1
            /\ stream' = << Failed(SetupError) >>
            /\ UNCHANGED outbound
    /\ UNCHANGED << sessVars, dispVars, waitVars, recvVars, closeOnce, closer, closeRets,
                    sends, collVars, apiVars, callVars >>

\* The stream is built and conn.WriteJSON(setupMsg) is called: the message is
\* written (ok), or the connection is closed and Stream returns the error.
StreamSetup(p, ok) ==
    /\ stream = Nil
    /\ conn = "open"
    /\ outbound = << >>
    /\ p \in Params(kind)
    /\ IF ok
       THEN /\ outbound' = << SetupMessage(kind, p) >>
            /\ UNCHANGED << stream, conn, connCloses >>
       ELSE /\ conn' = "closed"
            /\ connCloses' = connCloses + 1
            /\ stream' = << Failed(SetupError) >>
            /\ UNCHANGED outbound
    /\ UNCHANGED << sessVars, dispVars, waitVars, recvVars, closeOnce, closer, closeRets,
                    sends, collVars, apiVars, callVars >>

\* go stream.handleMessages(); return stream, nil.
StreamStart ==
    /\ stream = Nil
    /\ outbound # << >>
    /\ dpc = "none"
    /\ dpc' = "read"
    /\ defers' = Defers(kind)
    /\ stream' = << Opened >>
    /\ UNCHANGED << sessVars, readySignaled, item, recvd, readErr, waitVars, recvVars,
                    connVars, sendVars, collVars, apiVars, callVars >>

\* Stream(ctx, params), from entry to return.
Stream ==
    \/ \E ok \in BOOLEAN : StreamDial(ok)
    \/ \E p \in Params(kind), ok \in BOOLEAN : StreamSetup(p, ok)
    \/ StreamStart

(***************************************************************************)
(* Close: s.closeOnce.Do(func() { err = s.conn.Close() }); return err.     *)
(***************************************************************************)
\* The Close calls made so far, returned or in progress.
CloseCalls == Len(closeRets) + Cardinality({ p \in Closers : closer[p].pc # "idle" })

\* What conn.Close() may return: nil, or the error of the transport's close.
ConnCloseResults == { Nil, << "close error" >> }

\* Caller p enters Close: var err error.
CloseCall(p) ==
    /\ ~panicked
    /\ HasStream
    /\ closer[p].pc = "idle"
    /\ CloseCalls < MaxCloses
    /\ closer' = [closer EXCEPT ![p] = [pc |-> "do", err |-> Nil, ran |-> FALSE,
                                        after |-> closeRets # << >>]]
    /\ UNCHANGED << sessVars, dispVars, waitVars, recvVars, stream, conn, connCloses,
                    closeOnce, closeRets, sendVars, collVars, apiVars, callVars >>

\* CloseOnceDone that reports the repeated call: err is set to an error.
CloseOnceDoneFails(p) ==
    /\ ~panicked
    /\ closer[p].pc = "do"
    /\ closeOnce = "done"
    /\ closer' = [closer EXCEPT ![p].pc = "return", ![p].err = << "already closed" >>]
    /\ UNCHANGED << sessVars, dispVars, waitVars, recvVars, stream, conn, connCloses,
                    closeOnce, closeRets, sendVars, collVars, apiVars, callVars >>

\* closeOnce.Do finds the Once done: the function is not called.
CloseOnceDone(p) ==
    /\ ~panicked
    /\ closer[p].pc = "do"
    /\ closeOnce = "done"
    /\ closer' = [closer EXCEPT ![p].pc = "return"]
    /\ UNCHANGED << sessVars, dispVars, waitVars, recvVars, stream, conn, connCloses,
                    closeOnce, closeRets, sendVars, collVars, apiVars, callVars >>

\* closeOnce.Do finds the Once new: it is taken, the function is called.  A
\* caller that finds the Once taken waits in Do until it is done.
CloseOnceEnter(p) ==
    /\ ~panicked
    /\ closer[p].pc = "do"
    /\ closeOnce = "new"
    /\ closeOnce' = "running"
    /\ closer' = [closer EXCEPT ![p].pc = "f"]
    /\ UNCHANGED << sessVars, dispVars, waitVars, recvVars, stream, conn, connCloses,
                    closeRets, sendVars, collVars, apiVars, callVars >>

\* CloseConn that leaves the connection open: the function given to Do is empty.
CloseConnSkipped(p, e) ==
    /\ ~panicked
    /\ closer[p].pc = "f"
    /\ e = Nil
    /\ closeOnce' = "done"
    /\ closer' = [closer EXCEPT ![p].pc = "return", ![p].ran = TRUE]
    /\ UNCHANGED << sessVars, dispVars, waitVars, recvVars, stream, conn, connCloses,
                    closeRets, sendVars, collVars, apiVars, callVars >>

\* CloseConn without the Once: every caller that reaches Do runs the function.
CloseConnEveryCall(p, e) ==
    /\ ~panicked
    /\ closer[p].pc \in {"f", "do"}
    /\ conn' = "closed"
    /\ connCloses' = connCloses + 1
    /\ closeOnce' = "done"
    /\ closer' = [closer EXCEPT ![p].pc = "return", ![p].err = e, ![p].ran = TRUE]
    /\ UNCHANGED << sessVars, dispVars, waitVars, recvVars, stream, closeRets,
                    sendVars, collVars, apiVars, callVars >>

\* The function given to Do: err = s.conn.Close(), which returns e; Do returns.
CloseConn(p, e) ==
    /\ ~panicked
    /\ closer[p].pc = "f"
    /\ conn' = "closed"
    /\ connCloses' = connCloses + 1
    /\ closeOnce' = "done"
    /\ closer' = [closer EXCEPT ![p].pc = "return", ![p].err = e, ![p].ran = TRUE]
    /\ UNCHANGED << sessVars, dispVars, waitVars, recvVars, stream, closeRets,
                    sendVars, collVars, apiVars, callVars >>

\* return err.
CloseReturn(p) ==
    /\ ~panicked
    /\ closer[p].pc = "return"
    /\ closeRets' = Append(closeRets, [err |-> closer[p].err, ran |-> closer[p].ran,
                                       after |-> closer[p].after])
    /\ closer' = [closer EXCEPT ![p] = NotClosing]
    /\ UNCHANGED << sessVars, dispVars, waitVars, recvVars, stream, conn, connCloses,
                    closeOnce, sendVars, collVars, apiVars, callVars >>

(***************************************************************************)
(* SendText, SendAudio, SendEndOfStream: return s.conn.WriteJSON(msg).     *)
(***************************************************************************)
\* conn.WriteJSON fails on a connection that was closed, and when the
\* transport fails the write (ok = FALSE).
WriteFails(ok) == conn # "open" \/ ~ok

\* What conn.WriteJSON returns.
WriteJSONResult(ok) ==
    IF conn # "open" THEN << "use of closed network connection" >>
    ELSE IF ~ok THEN << "write error" >>
    ELSE Nil

\* The frames the connection has carried after conn.WriteJSON(msg).
WriteJSON(msg, ok) == IF WriteFails(ok) THEN outbound ELSE Append(outbound, msg)

\* One Send call, from entry to return.
Send(op, msg, ok) ==
    /\ ~panicked
    /\ HasStream
    /\ outbound' = WriteJSON(msg, ok)
    /\ sends' = Append(sends, [op |-> op, err |-> WriteJSONResult(ok),
                               closed |-> closeRets # << >>])
    /\ UNCHANGED << sessVars, dispVars, waitVars, recvVars, stream, connVars, collVars, apiVars, callVars >>

SendText(text, ok) ==
    /\ kind = "tts"
    /\ Send("SendText", [type |-> "text", text |-> text], ok)

SendAudio(audio, ok) ==
    /\ kind = "stt"
    /\ Send("SendAudio", [type |-> "audio", audio |-> EncodeToString(audio)], ok)

SendEndOfStream(ok) == Send("SendEndOfStream", [type |-> msgTypeEndOfStream], ok)

(***************************************************************************)
(* The Send operations of callers that run at the same time.  A call is    *)
(* two steps: the caller enters s.conn.WriteJSON(msg), and the write       *)
(* returns.  Nothing in SendText, SendAudio or SendEndOfStream is taken or *)
(* tested before the write is entered.  The connection supports one writer *)
(* at a time: writes that overlap race on it, and the frames go out in     *)
(* either order, a write fails, or the write panics.                       *)
(***************************************************************************)
\* The callers inside conn.WriteJSON.
Writers == { p \in Senders : writing[p] # Nil }

\* SendEnter behind a lock: the write is entered only when no caller is inside.
SendEnterLocked(p, op, msg) ==
    /\ ~panicked
    /\ HasStream
    /\ Writers = {}
    /\ writing' = [writing EXCEPT ![p] = << [op |-> op, msg |-> msg] >>]
    /\ UNCHANGED << sessVars, dispVars, waitVars, recvVars, stream, connVars, sendVars,
                    collVars, apiVars, audioArg, guardVars >>

\* Caller p enters s.conn.WriteJSON(msg).
SendEnter(p, op, msg) ==
    /\ ~panicked
    /\ HasStream
    /\ writing[p] = Nil
    /\ writing' = [writing EXCEPT ![p] = << [op |-> op, msg |-> msg] >>]
    /\ \E crash \in (IF Writers = {} THEN {FALSE} ELSE BOOLEAN) : panicked' = crash
    /\ UNCHANGED << kind, requestID, readyInfo, err, closes, buf, drops, dispVars, waitVars,
                    recvVars, stream, connVars, sendVars, collVars, apiVars, audioArg, guardVars >>

\* The write of caller p returns, and the Send operation with it.
SendReturn(p, ok) ==
    /\ ~panicked
    /\ writing[p] # Nil
    /\ outbound' = WriteJSON(writing[p][1].msg, ok)
    /\ sends' = Append(sends, [op |-> writing[p][1].op, err |-> WriteJSONResult(ok),
                               closed |-> closeRets # << >>])
    /\ writing' = [writing EXCEPT ![p] = Nil]
    /\ UNCHANGED << sessVars, dispVars, waitVars, recvVars, stream, connVars, collVars,
                    apiVars, audioArg, guardVars >>

(***************************************************************************)
(* Collect (TTS) and CollectText (STT).                                    *)
(***************************************************************************)
\* The channel the aggregator of a stream of kind k receives from.
CollectChan(k) == IF k = "tts" THEN "audioCh" ELSE "textCh"

\* copy(dst[offset:], src): as many bytes as fit are copied.
Copy(dst, offset, src) ==
    [i \in 1..Len(dst) |->
        IF i > offset /\ i <= offset + Len(src) THEN src[i - offset] ELSE dst[i]]

\* Combine that never advances offset: every chunk is copied to the front.
CombineNoOffset(cs, n) ==
    LET RECURSIVE Loop(_, _)
        Loop(rawData, rest) ==
            IF rest = << >> THEN rawData
            ELSE Loop(Copy(rawData, 0, Head(rest)), Tail(rest))
    IN  Loop([i \in 1..n |-> 0], cs)

\* rawData := make([]byte, totalLen); for each chunk: copy, offset += len(c).
Combine(cs, n) ==
    LET RECURSIVE Loop(_, _, _)
        Loop(rawData, rest, offset) ==
            IF rest = << >> THEN rawData
            ELSE Loop(Copy(rawData, offset, Head(rest)), Tail(rest),
                      offset + Len(Head(rest)))
    IN  Loop([i \in 1..n |-> 0], cs, 0)

\* Join that leaves the separator out.
JoinNoSeparator(elems, sep) ==
    LET RECURSIVE Loop(_)
        Loop(rest) == IF rest = << >> THEN "" ELSE Head(rest) \o Loop(Tail(rest))
    IN  Loop(elems)

\* strings.Join(elems, sep).
Join(elems, sep) ==
    LET RECURSIVE Loop(_)
        Loop(rest) ==
            IF rest = << >> THEN ""
            ELSE IF Len(rest) = 1 THEN Head(rest)
            ELSE Head(rest) \o sep \o Loop(Tail(rest))
    IN  Loop(elems)

\* What a call returns: taken counts the items it received from the channel,
\* closed tells whether a Close of the stream had returned by then.
Collected(result, e, ctx) ==
    [ctx |-> ctx, err |-> e, result |-> result, taken |-> Len(chunks),
     closed |-> closeRets # << >>]

\* The caller enters Collect / CollectText: var chunks, totalLen := 0.
CollectCall ==
    /\ ~panicked
    /\ HasStream
    /\ kpc = "idle"
    /\ Len(collects) < MaxCollects
    /\ kpc' = "loop"
    /\ chunks' = << >>
    /\ totalLen' = 0
    /\ UNCHANGED << sessVars, dispVars, waitVars, recvVars, stream, connVars, sendVars,
                    collects, apiVars, callVars >>

\* select: case chunk, ok := <-s.audioCh with ok true; chunks = append(...).
CollectRecv ==
    /\ ~panicked
    /\ kpc = "loop"
    /\ buf[CollectChan(kind)] # << >>
    /\ LET v == Head(buf[CollectChan(kind)])
       IN  IF kind = "tts"
           THEN /\ chunks' = Append(chunks, v)
                /\ totalLen' = totalLen + Len(v)
           ELSE /\ chunks' = Append(chunks, v.Text)
                /\ UNCHANGED totalLen
    /\ buf' = [buf EXCEPT ![CollectChan(kind)] = Tail(@)]
    /\ UNCHANGED << kind, requestID, readyInfo, err, closes, panicked, drops, dispVars,
                    waitVars, recvVars, stream, connVars, sendVars, kpc, collects, apiVars, callVars >>

\* select: the receive reports ok false: the channel is closed and empty.
CollectClosed ==
    /\ ~panicked
    /\ kpc = "loop"
    /\ buf[CollectChan(kind)] = << >>
    /\ IsClosed(CollectChan(kind))
    /\ kpc' = "closed"
    /\ UNCHANGED << sessVars, dispVars, waitVars, recvVars, stream, connVars, sendVars,
                    chunks, totalLen, collects, apiVars, callVars >>

\* if err := s.getError(); err != nil { return nil, err }; return the result.
CollectReturn ==
    /\ ~panicked
    /\ kpc = "closed"
    /\ collects' = Append(collects,
            IF getError # Nil THEN Collected(Nil, getError, FALSE)
            ELSE IF kind = "tts"
            THEN Collected(<< [RawData |-> Combine(chunks, totalLen), SampleRate |-> 48000,
                               RequestID |-> requestID] >>, Nil, FALSE)
            ELSE Collected(<< Join(chunks, " ") >>, Nil, FALSE))
    /\ kpc' = "idle"
    /\ chunks' = << >>
    /\ totalLen' = 0
    /\ UNCHANGED << sessVars, dispVars, waitVars, recvVars, stream, connVars, sendVars, apiVars, callVars >>

\* select: case <-ctx.Done(): return nil, ctx.Err().
CollectCtxDone ==
    /\ ~panicked
    /\ kpc = "loop"
    /\ collects' = Append(collects, Collected(Nil, Nil, TRUE))
    /\ kpc' = "idle"
    /\ chunks' = << >>
    /\ totalLen' = 0
    /\ UNCHANGED << sessVars, dispVars, waitVars, recvVars, stream, connVars, sendVars, apiVars, callVars >>

(***************************************************************************)
(* handleAPIError.  A response is its StatusCode, its Retry-After header   *)
(* (a sequence of characters, empty when the header is absent) and its     *)
(* body: the text, whether it is a JSON object, and the value of its       *)
(* "detail" key (<< >> when there is none).                                *)
(***************************************************************************)
Digits == << "0", "1", "2", "3", "4", "5", "6", "7", "8", "9" >>
IsDigit(c) == \E d \in 1..10 : Digits[d] = c
DigitValue(c) == (CHOOSE d \in 1..10 : Digits[d] = c) - 1

\* strconv.Atoi(s), its error dropped: an optional sign and then digits, at
\* least one; anything else makes it return 0.
Atoi(s) ==
    LET signed == s # << >> /\ s[1] \in {"+", "-"}
        digits == IF signed THEN Tail(s) ELSE s
        RECURSIVE Value(_, _)
        Value(n, rest) ==
            IF rest = << >> THEN n ELSE Value(10 * n + DigitValue(Head(rest)), Tail(rest))
    IN  IF digits = << >> \/ \E i \in 1..Len(digits) : ~IsDigit(digits[i]) THEN 0
        ELSE IF signed /\ s[1] = "-" THEN 0 - Value(0, digits)
        ELSE Value(0, digits)

\* The bodies a response may carry.
DetailString == [kind |-> "string", value |-> "Invalid API key"]
DetailList ==
    [kind |-> "list",
     value |-> << [loc |-> << "body", "text" >>, msg |-> "field required",
                   type |-> "value_error.missing"] >>]

Bodies ==
    { [text |-> "", object |-> FALSE, detail |-> Nil],
      [text |-> "upstream timeout", object |-> FALSE, detail |-> Nil],
      [text |-> "{\"detail\":\"Invalid API key\"}", object |-> TRUE,
       detail |-> << DetailString >>],
      [text |-> "{\"detail\":[{\"loc\":[\"body\",\"text\"],\"msg\":\"field required\"}]}",
       object |-> TRUE, detail |-> << DetailList >>] }

\* getMessage: the detail when it is a string, else string(body).
getMessage(body) ==
    IF body.detail # Nil /\ body.detail[1].kind = "string" THEN body.detail[1].value
    ELSE body.text

\* json.Unmarshal(body, &validationErr) and the Errors of the ValidationError:
\* the detail list when the body is an object whose detail is a list (or
\* absent), nil otherwise.
ValidationErrors(body) ==
    IF body.object /\ body.detail # Nil /\ body.detail[1].kind = "list"
    THEN body.detail[1].value
    ELSE << >>

\* handleAPIError that has no case for 403.
handleAPIErrorNo403(r) ==
    LET message == getMessage(r.Body)
    IN  << CASE r.StatusCode = 422 ->
                  [Type |-> "ValidationError", Status |-> 422,
                   Errors |-> ValidationErrors(r.Body)]
             [] r.StatusCode = 401 ->
                  [Type |-> "AuthenticationError", Message |-> message]
             [] r.StatusCode = 404 -> [Type |-> "NotFoundError", Message |-> message]
             [] r.StatusCode = 429 ->
                  [Type |-> "RateLimitError", Message |-> message,
                   RetryAfter |-> IF r.RetryAfter # << >> THEN Atoi(r.RetryAfter) ELSE 0]
             [] OTHER ->
                  IF r.StatusCode >= 500
                  THEN [Type |-> "InternalServerError", Status |-> r.StatusCode,
                        Message |-> message]
                  ELSE [Type |-> "APIError", Status |-> r.StatusCode, Message |-> message,
                        Body |-> r.Body.text] >>

\* handleAPIError(resp): the error it returns, as << e >>.
handleAPIError(r) ==
    LET message == getMessage(r.Body)
    IN  << CASE r.StatusCode = 422 ->
                  [Type |-> "ValidationError", Status |-> 422,
                   Errors |-> ValidationErrors(r.Body)]
             [] r.StatusCode \in {401, 403} ->
                  [Type |-> "AuthenticationError", Message |-> message]
             [] r.StatusCode = 404 -> [Type |-> "NotFoundError", Message |-> message]
             [] r.StatusCode = 429 ->
                  [Type |-> "RateLimitError", Message |-> message,
                   RetryAfter |-> IF r.RetryAfter # << >> THEN Atoi(r.RetryAfter) ELSE 0]
             [] OTHER ->
                  IF r.StatusCode >= 500
                  THEN [Type |-> "InternalServerError", Status |-> r.StatusCode,
                        Message |-> message]
                  ELSE [Type |-> "APIError", Status |-> r.StatusCode, Message |-> message,
                        Body |-> r.Body.text] >>

\* The characters a Retry-After header is made of, and the headers.
HeaderChars == { "0", "7", "-", "s" }

RECURSIVE HeadersOfLen(_)
HeadersOfLen(n) ==
    IF n = 0 THEN { << >> }
    ELSE { Append(h, c) : h \in HeadersOfLen(n - 1), c \in HeaderChars }

Headers == UNION { HeadersOfLen(n) : n \in 0..MaxHeaderLen }

Responses ==
    [StatusCode : 100..MaxStatus, RetryAfter : Headers, Body : Bodies]

\* The request came back with a response whose status is not the expected one.
Respond ==
    /\ resp = Nil
    /\ \E r \in Responses : resp' = << r >>
    /\ UNCHANGED << sessVars, dispVars, waitVars, recvVars, stream, connVars, sendVars,
                    collVars, apiErr, callVars >>

\* return handleAPIError(resp), from entry to return.
HandleAPIError ==
    /\ resp # Nil
    /\ apiErr = Nil
    /\ apiErr' = << handleAPIError(resp[1]) >>
    /\ UNCHANGED << sessVars, dispVars, waitVars, recvVars, stream, connVars, sendVars,
                    collVars, resp, callVars >>

(***************************************************************************)
(* Spec: a session whose server sends at most MaxFrames non-terminal       *)
(* frames, any of Frames(kind), and whose transport may fail at any read.  *)
(***************************************************************************)
Budget == Len(recvd) < MaxFrames

Dispatcher ==
    \/ \E f \in Frames(kind) : Budget /\ HandleContinue(f)
    \/ \E f \in Frames(kind) : Budget /\ HandleReady(f)
    \/ \E f \in Frames(kind) : Budget /\ HandleItem(f)
    \/ \E f \in Frames(kind) : HandleEndOfStream(f)
    \/ \E f \in Frames(kind) : HandleError(f)
    \/ ReadError
    \/ SignalReady
    \/ PublishAll
    \/ ErrorSignal
    \/ RunDefer

WaitReady ==
    \/ WaitReadySelect
    \/ WaitReadyGetError
    \/ WaitReadyReturn
    \/ WaitReadyCtxDone

Drain == \E c \in AllChans : Receive(c)

\* The session with a caller that calls WaitReady.
Next == Dispatcher \/ WaitReady

Spec == Init /\ [][Next]_vars

\* The session with a caller that receives from the result channels.
NextDrain == Dispatcher \/ Drain

SpecDrain == Init /\ [][NextDrain]_vars


(***************************************************************************)
(* SpecClose: a session whose server sends at most CloseFrames well-formed *)
(* non-terminal frames and whose callers close the stream, up to           *)
(* NumClosers of them at a time.                                           *)
(***************************************************************************)
SessionFrames(k) ==
    IF k = "tts"
    THEN { Garbage, EndOfStream, TTSReady("req-1", {}),
           AudioFrame(EncodeToString(BytesAB), {}), AudioFrame(EncodeToString(BytesCD), {}),
           ErrorFrame("Invalid voice ID", 400, {}) }
    ELSE { Garbage, EndOfStream, STTReady("req-1", 24000, {}),
           TextFrame("Hello", 0, {}), TextFrame("world", 500, {}),
           ErrorFrame("Invalid voice ID", 400, {}) }

CloseBudget == Len(recvd) < CloseFrames

CloseDispatcher ==
    \/ \E f \in SessionFrames(kind) : CloseBudget /\ HandleContinue(f)
    \/ \E f \in SessionFrames(kind) : CloseBudget /\ HandleReady(f)
    \/ \E f \in SessionFrames(kind) : CloseBudget /\ HandleItem(f)
    \/ \E f \in SessionFrames(kind) : HandleEndOfStream(f)
    \/ \E f \in SessionFrames(kind) : HandleError(f)
    \/ ReadError
    \/ SignalReady
    \/ PublishAll
    \/ ErrorSignal
    \/ RunDefer

Close ==
    \/ \E p \in Closers : CloseCall(p)
    \/ \E p \in Closers : CloseOnceDone(p)
    \/ \E p \in Closers : CloseOnceEnter(p)
    \/ \E p \in Closers, e \in ConnCloseResults : CloseConn(p, e)
    \/ \E p \in Closers : CloseReturn(p)

NextClose == CloseDispatcher \/ Close

SpecClose == Init /\ [][NextClose]_vars

(***************************************************************************)
(* SpecSend: a session whose server is silent and whose transport may      *)
(* drop; one caller sends on the stream while another closes it, again and *)
(* again.                                                                  *)
(***************************************************************************)
SendBudget == Len(sends) < MaxSends

Sends ==
    \/ \E ok \in BOOLEAN : SendBudget /\ SendText("Hello", ok)
    \/ \E ok \in BOOLEAN : SendBudget /\ SendAudio(BytesAB, ok)
    \/ \E ok \in BOOLEAN : SendBudget /\ SendEndOfStream(ok)

CloseAlone ==
    \/ CloseCall(1)
    \/ CloseOnceDone(1)
    \/ CloseOnceEnter(1)
    \/ \E e \in ConnCloseResults : CloseConn(1, e)
    \/ CloseReturn(1)

NextSend == ReadError \/ ErrorSignal \/ RunDefer \/ CloseAlone \/ Sends

SpecSend == Init /\ [][NextSend]_vars

(***************************************************************************)
(* SpecCancel: the session of SpecClose with one caller of Close, and a    *)
(* handleMessages goroutine that keeps running: it takes its next step     *)
(* whenever it is not waiting in ReadMessage on an open connection.        *)
(***************************************************************************)
NextCancel == CloseDispatcher \/ CloseAlone

SpecCancel ==
    /\ Init
    /\ [][NextCancel]_vars
    /\ WF_vars(CloseDispatcher /\ (conn = "closed" \/ dpc # "read"))

(***************************************************************************)
(* SpecCollect: a session of well-formed traffic whose caller aggregates   *)
(* with Collect / CollectText, under contexts that may expire.             *)
(***************************************************************************)
CollectDispatcher ==
    \/ \E f \in SessionFrames(kind) : Budget /\ HandleContinue(f)
    \/ \E f \in SessionFrames(kind) : Budget /\ HandleReady(f)
    \/ \E f \in SessionFrames(kind) : Budget /\ HandleItem(f)
    \/ \E f \in SessionFrames(kind) : HandleEndOfStream(f)
    \/ \E f \in SessionFrames(kind) : HandleError(f)
    \/ ReadError
    \/ SignalReady
    \/ PublishAll
    \/ ErrorSignal
    \/ RunDefer

Collect ==
    \/ CollectCall
    \/ CollectRecv
    \/ CollectClosed
    \/ CollectReturn
    \/ CollectCtxDone

NextCollect == CollectDispatcher \/ Collect

SpecCollect == Init /\ [][NextCollect]_vars


(***************************************************************************)
(* SpecOpen: Stream is called once, under each behaviour of the transport; *)
(* a stream it returns is served at most CloseFrames well-formed           *)
(* non-terminal frames.                                                    *)
(***************************************************************************)
NextOpen == Stream \/ CloseDispatcher

SpecOpen == InitOpen /\ [][NextOpen]_vars


(***************************************************************************)
(* Create (TTS) and Transcribe (STT): the one-shot calls.  Each opens a    *)
(* stream, defers its Close, and runs WaitReady, the sends and the         *)
(* aggregator in sequence, returning at the first error.                   *)
(***************************************************************************)
\* A WaitReady call that returned nil.
Succeeded(w) == ~w.ctx /\ w.err = Nil

\* A send made so far has returned an error.
SendFailed == \E i \in 1..Len(sends) : sends[i].err # Nil

\* The deferred stream.Close(), run when the one-shot call returns.
DeferredClose ==
    \/ CloseCall(1)
    \/ CloseOnceEnter(1)
    \/ \E e \in ConnCloseResults : CloseConn(1, e)
    \/ CloseReturn(1)

\* CreateAt that goes on to SendText whatever WaitReady returned.
CreateAtIgnoresWaitReady ==
    IF kind # "tts" THEN "none"
    ELSE IF stream = Nil THEN "Stream"
    ELSE IF ~HasStream \/ closeRets # << >> THEN "returned"
    ELSE IF waits = << >> THEN "WaitReady"
    ELSE IF SendFailed THEN "defer"
    ELSE IF Len(sends) = 0 THEN "SendText"
    ELSE IF Len(sends) = 1 THEN "SendEndOfStream"
    ELSE IF collects = << >> THEN "Collect"
    ELSE "defer"

\* The statement Create is at: "defer" is the deferred Close that runs on
\* every return after Stream succeeded.
CreateAt ==
    IF kind # "tts" THEN "none"
    ELSE IF stream = Nil THEN "Stream"
    ELSE IF ~HasStream \/ closeRets # << >> THEN "returned"
    ELSE IF waits = << >> THEN "WaitReady"
    ELSE IF ~Succeeded(waits[1]) THEN "defer"
    ELSE IF SendFailed THEN "defer"
    ELSE IF Len(sends) = 0 THEN "SendText"
    ELSE IF Len(sends) = 1 THEN "SendEndOfStream"
    ELSE IF collects = << >> THEN "Collect"
    ELSE "defer"

\* Create(ctx, params), a step at a time.
Create ==
    \/ CreateAt = "Stream" /\ Stream
    \/ CreateAt = "WaitReady" /\ WaitReady
    \/ \E ok \in BOOLEAN : CreateAt = "SendText" /\ SendText("Hello", ok)
    \/ \E ok \in BOOLEAN : CreateAt = "SendEndOfStream" /\ SendEndOfStream(ok)
    \/ CreateAt = "Collect" /\ Collect
    \/ CreateAt = "defer" /\ DeferredClose

\* The audio given to Transcribe: n bytes, no two chunks of them alike.
Audio(n) == [i \in 1..n |-> i % 251]

AudioInputs ==
    { Audio(n) : n \in {0, 1} \cup { chunkSize * k : k \in 1..MaxChunks }
                              \cup { chunkSize * k + 1 : k \in 1..(MaxChunks - 1) } }

\* The caller enters Transcribe(ctx, params, a).
TranscribeCall(a) ==
    /\ kind = "stt"
    /\ audioArg = Nil
    /\ audioArg' = << a >>
    /\ UNCHANGED << sessVars, dispVars, waitVars, recvVars, stream, connVars, sendVars,
                    collVars, apiVars, writing, guardVars >>

\* ChunkOf that leaves out the last byte of every chunk.
ChunkOfDropsLast(a, i) ==
    SubSeq(a, i + 1, (IF i + chunkSize > Len(a) THEN Len(a) ELSE i + chunkSize) - 1)

\* end := i + chunkSize; if end > len(audio) { end = len(audio) }; audio[i:end].
ChunkOf(a, i) ==
    LET end == IF i + chunkSize > Len(a) THEN Len(a) ELSE i + chunkSize
    IN  SubSeq(a, i + 1, end)

\* The loop variable i of Transcribe: it starts at 0 and every SendAudio that
\* returned nil was followed by i += chunkSize.
LoopIndex == chunkSize * Len(sends)

\* The statement Transcribe is at.
TranscribeAt ==
    IF kind # "stt" THEN "none"
    ELSE IF audioArg = Nil THEN "call"
    ELSE IF stream = Nil THEN "Stream"
    ELSE IF ~HasStream \/ closeRets # << >> THEN "returned"
    ELSE IF waits = << >> THEN "WaitReady"
    ELSE IF ~Succeeded(waits[1]) THEN "defer"
    ELSE IF SendFailed THEN "defer"
    ELSE IF sends # << >> /\ sends[Len(sends)].op = "SendEndOfStream"
         THEN IF collects = << >> THEN "CollectText" ELSE "defer"
    ELSE IF LoopIndex < Len(audioArg[1]) THEN "SendAudio"
    ELSE "SendEndOfStream"

\* Transcribe(ctx, params, audio), a step at a time.
Transcribe ==
    \/ \E a \in AudioInputs : TranscribeCall(a)
    \/ TranscribeAt = "Stream" /\ Stream
    \/ TranscribeAt = "WaitReady" /\ WaitReady
    \/ \E ok \in BOOLEAN :
          /\ TranscribeAt = "SendAudio"
          /\ SendAudio(ChunkOf(audioArg[1], LoopIndex), ok)
    \/ \E ok \in BOOLEAN : TranscribeAt = "SendEndOfStream" /\ SendEndOfStream(ok)
    \/ TranscribeAt = "CollectText" /\ Collect
    \/ TranscribeAt = "defer" /\ DeferredClose

(***************************************************************************)
(* SpecCreate: one call of Create, under each behaviour of the transport   *)
(* and of the deadline, against a server that sends at most CloseFrames    *)
(* well-formed non-terminal frames.                                        *)
(***************************************************************************)
CreateDispatcher ==
    \/ \E f \in SessionFrames("tts") : CloseBudget /\ HandleContinue(f)
    \/ \E f \in SessionFrames("tts") : CloseBudget /\ HandleReady(f)
    \/ \E f \in SessionFrames("tts") : CloseBudget /\ HandleItem(f)
    \/ \E f \in SessionFrames("tts") : HandleEndOfStream(f)
    \/ \E f \in SessionFrames("tts") : HandleError(f)
    \/ ReadError
    \/ SignalReady
    \/ ErrorSignal
    \/ RunDefer

NextCreate == Create \/ CreateDispatcher

\* The state before Create is called.
InitCreate == InitOpen /\ kind = "tts"

SpecCreate == InitCreate /\ [][NextCreate]_vars

(***************************************************************************)
(* SpecTranscribe: one call of Transcribe, under each behaviour of the     *)
(* transport and of the deadline, against a server that answers the setup  *)
(* with ready and ends the session with end_of_stream.                     *)
(***************************************************************************)
TranscribeDispatcher ==
    \/ recvd = << >> /\ HandleReady(STTReady("req-1", 24000, {}))
    \/ HandleEndOfStream(EndOfStream)
    \/ ReadError
    \/ SignalReady
    \/ ErrorSignal
    \/ RunDefer

NextTranscribe == Transcribe \/ TranscribeDispatcher

\* The state before Transcribe is called.
InitTranscribe == InitOpen /\ kind = "stt"

SpecTranscribe == InitTranscribe /\ [][NextTranscribe]_vars


(***************************************************************************)
(* SpecAPI: one HTTP request whose response, any of Responses, is given to *)
(* handleAPIError.                                                         *)
(***************************************************************************)
NextAPI == Respond \/ HandleAPIError

\* The state before the request is made: no response yet.
InitAPI == InitCreate

SpecAPI == InitAPI /\ [][NextAPI]_vars


(***************************************************************************)
(* SpecFlood: a session whose server floods one data category with up to   *)
(* FloodOver frames more than its channel holds, follows an overflowing    *)
(* flood with up to FloodOther frames of a second category, and ends the   *)
(* stream or drops the connection at any point.  The payload of the n-th   *)
(* frame is determined by n, so that every item is told apart from its     *)
(* neighbours.  The caller ranges over one result channel, for FloodRecvs  *)
(* items.                                                                  *)
(***************************************************************************)
Categories(k) == IF k = "tts" THEN {"audio"} ELSE {"text", "step", "end_text"}

FloodFrame(r, n) ==
    CASE r = "audio" -> AudioFrame(EncodeToString(<< n >>), {})
      [] r = "text" -> TextFrame(IF n % 2 = 0 THEN "Hello" ELSE "world", n, {})
      [] r = "step" -> StepFrame(n, {})
      [] r = "end_text" -> EndTextFrame(n, {})

\* The frames of recvd outside the category of the first one.
Others == { i \in 1..Len(recvd) : recvd[i].type # recvd[1].type }

\* The server may send a frame of category r next.
FloodAllows(r) ==
    IF recvd = << >> THEN TRUE
    ELSE IF Others = {}
    THEN IF r = recvd[1].type
         THEN Len(recvd) < Cap(CategoryChan(r)) + FloodOver
         ELSE Len(recvd) > Cap(CategoryChan(recvd[1].type)) /\ FloodOther > 0
    ELSE r = recvd[Len(recvd)].type /\ Cardinality(Others) < FloodOther

\* The caller ranges over channel c alone.
FloodReceive(c) ==
    /\ Len(got[c]) < FloodRecvs
    /\ \A d \in AllChans \ {c} : got[d] = << >> /\ ~sawClosed[d]
    /\ Receive(c)

FloodDispatcher ==
    \/ \E r \in Categories(kind) :
        dpc = "read" /\ FloodAllows(r) /\ HandleItem(FloodFrame(r, Len(recvd)))
    \/ HandleEndOfStream(EndOfStream)
    \/ ReadError
    \/ PublishAll
    \/ ErrorSignal
    \/ RunDefer

NextFlood == FloodDispatcher \/ \E c \in AllChans : FloodReceive(c)

SpecFlood == Init /\ [][NextFlood]_vars


(***************************************************************************)
(* SpecOrder: the flood of SpecFlood in one category of each service:      *)
(* audio for TTS, end_text, whose channel is the smallest, for STT.        *)
(***************************************************************************)
OrderCategories(k) == IF k = "tts" THEN {"audio"} ELSE {"end_text"}

OrderDispatcher ==
    \/ \E r \in OrderCategories(kind) :
        dpc = "read" /\ FloodAllows(r) /\ HandleItem(FloodFrame(r, Len(recvd)))
    \/ HandleEndOfStream(EndOfStream)
    \/ ReadError
    \/ PublishAll
    \/ ErrorSignal
    \/ RunDefer

NextOrder == OrderDispatcher \/ \E c \in AllChans : FloodReceive(c)

SpecOrder == Init /\ [][NextOrder]_vars


(***************************************************************************)
(* SpecAll: a session whose server sends at most AllFrames well-formed     *)
(* data frames, of any category and in any order, and then end_of_stream;  *)
(* the caller ranges over the unified channel.                             *)
(***************************************************************************)
DataFrames(k) ==
    IF k = "tts" THEN { AudioFrame(EncodeToString(BytesAB), {}) }
    ELSE { TextFrame("Hello", 0, {}), StepFrame(0, {}), EndTextFrame(1500, {}) }

NextAll ==
    \/ \E f \in DataFrames(kind) : Len(recvd) < AllFrames /\ HandleItem(f)
    \/ PublishAll
    \/ HandleEndOfStream(EndOfStream)
    \/ RunDefer
    \/ Receive("allMsgCh")

SpecAll == Init /\ [][NextAll]_vars


(***************************************************************************)
(* The ready data and its readers, access by access.  The ready case of    *)
(* handleMessages is taken in steps: the frame is read and unmarshalled,   *)
(* STT takes readyInfoMu, the field is written, STT releases readyInfoMu,  *)
(* and the ready signal follows.  A reading call is taken in steps as      *)
(* well, up to its read of the field.                                      *)
(***************************************************************************)
\* case msgTypeReady, up to json.Unmarshal.
ReadyUnmarshal(f) ==
    /\ Read(f)
    /\ Route(kind, f) = "ready"
    /\ dpc' = IF kind = "stt" THEN "lock" ELSE "store"
    /\ UNCHANGED << sessVars, readySignaled, item, defers >>

\* STT: s.readyInfoMu.Lock().
ReadyLock ==
    /\ dpc = "lock"
    /\ readyInfoMu = "free"
    /\ readyInfoMu' = "W"
    /\ dpc' = "store"
    /\ UNCHANGED << sessVars, readySignaled, item, defers, recvd, readErr, waitVars, recvVars,
                    stream, connVars, sendVars, collVars, apiVars, audioArg, writing, reader >>

\* The write: s.requestID = readyMsg.RequestID (TTS), s.readyInfo = &STTReadyInfo{...} (STT).
ReadyStore ==
    /\ dpc = "store"
    /\ IF kind = "tts"
       THEN /\ requestID' = Field(recvd[Len(recvd)], "request_id", "")
            /\ UNCHANGED readyInfo
       ELSE /\ readyInfo' = << ReadyInfoOf(recvd[Len(recvd)]) >>
            /\ UNCHANGED requestID
    /\ dpc' = IF kind = "stt" THEN "unlock" ELSE "signal"
    /\ UNCHANGED << kind, drops, err, closes, buf, panicked, readySignaled, item, defers,
                    recvd, readErr, waitVars, recvVars, ioVars >>

\* STT: s.readyInfoMu.Unlock().
ReadyUnlock ==
    /\ dpc = "unlock"
    /\ readyInfoMu' = "free"
    /\ dpc' = "signal"
    /\ UNCHANGED << sessVars, readySignaled, item, defers, recvd, readErr, waitVars, recvVars,
                    stream, connVars, sendVars, collVars, apiVars, audioArg, writing, reader >>

\* The caller is at position pc of the reading call op.
ReaderAt(op, pc) == reader = << [op |-> op, pc |-> pc] >>

\* The caller moves to position pc of op, or returns (pc = "done").
ReaderGoes(op, pc) ==
    /\ reader' = IF pc = "done" THEN Nil ELSE << [op |-> op, pc |-> pc] >>
    /\ UNCHANGED << sessVars, dispVars, waitVars, recvVars, stream, connVars, sendVars,
                    collVars, apiVars, audioArg, writing >>

\* TTS RequestID(): return s.requestID.
RequestIDCall ==
    \/ /\ kind = "tts" /\ reader = Nil
       /\ ReaderGoes("RequestID", "read") /\ UNCHANGED readyInfoMu
    \/ /\ ReaderAt("RequestID", "read")
       /\ ReaderGoes("RequestID", "done") /\ UNCHANGED readyInfoMu

\* TTS Collect, from the receive that finds audioCh closed: getError, then
\* the read of s.requestID for the result.
CollectReadsRequestID ==
    \/ /\ kind = "tts" /\ reader = Nil /\ IsClosed("audioCh") /\ buf["audioCh"] = << >>
       /\ getError = Nil
       /\ ReaderGoes("Collect", "read") /\ UNCHANGED readyInfoMu
    \/ /\ ReaderAt("Collect", "read")
       /\ ReaderGoes("Collect", "done") /\ UNCHANGED readyInfoMu

\* STT ReadyInfo(): RLock, return s.readyInfo, deferred RUnlock.
ReadyInfoCall ==
    \/ /\ kind = "stt" /\ reader = Nil
       /\ ReaderGoes("ReadyInfo", "rlock") /\ UNCHANGED readyInfoMu
    \/ /\ ReaderAt("ReadyInfo", "rlock") /\ readyInfoMu # "W"
       /\ readyInfoMu' = "R" /\ ReaderGoes("ReadyInfo", "read")
    \/ /\ ReaderAt("ReadyInfo", "read")
       /\ ReaderGoes("ReadyInfo", "runlock") /\ UNCHANGED readyInfoMu
    \/ /\ ReaderAt("ReadyInfo", "runlock")
       /\ readyInfoMu' = "free" /\ ReaderGoes("ReadyInfo", "done")

\* STT WaitReady, from case <-s.ready: getError, then return s.readyInfo, nil.
WaitReadyReadsInfo ==
    \/ /\ kind = "stt" /\ reader = Nil /\ IsClosed("ready")
       /\ ReaderGoes("WaitReady", "getError") /\ UNCHANGED readyInfoMu
    \/ /\ ReaderAt("WaitReady", "getError")
       /\ ReaderGoes("WaitReady", IF getError = Nil THEN "read" ELSE "done")
       /\ UNCHANGED readyInfoMu
    \/ /\ ReaderAt("WaitReady", "read")
       /\ ReaderGoes("WaitReady", "done") /\ UNCHANGED readyInfoMu

(***************************************************************************)
(* SpecGuard: a session of well-formed traffic in which the server may     *)
(* repeat the ready frame, and a caller that reads the ready data through  *)
(* RequestID and Collect (TTS) or ReadyInfo and WaitReady (STT).           *)
(***************************************************************************)
GuardFrames(k) ==
    SessionFrames(k) \cup (IF k = "tts" THEN {TTSReady("req-2", {})}
                                        ELSE {STTReady("req-2", 16000, {})})

GuardDispatcher ==
    \/ \E f \in GuardFrames(kind) : Budget /\ HandleContinue(f)
    \/ \E f \in GuardFrames(kind) : Budget /\ ReadyUnmarshal(f)
    \/ \E f \in GuardFrames(kind) : Budget /\ HandleItem(f)
    \/ \E f \in GuardFrames(kind) : HandleEndOfStream(f)
    \/ \E f \in GuardFrames(kind) : HandleError(f)
    \/ ReadError
    \/ ReadyLock
    \/ ReadyStore
    \/ ReadyUnlock
    \/ SignalReady
    \/ PublishAll
    \/ ErrorSignal
    \/ RunDefer

GuardReaders ==
    \/ RequestIDCall
    \/ CollectReadsRequestID
    \/ ReadyInfoCall
    \/ WaitReadyReadsInfo

NextGuard == GuardDispatcher \/ GuardReaders

SpecGuard == Init /\ [][NextGuard]_vars

(***************************************************************************)
(* SpecEnded: the session of SpecCancel, without the fairness, whose       *)
(* caller also aggregates with Collect / CollectText.                      *)
(***************************************************************************)
NextEnded == CloseDispatcher \/ CloseAlone \/ Collect

SpecEnded == Init /\ [][NextEnded]_vars

(***************************************************************************)
(* SpecWriters: callers that send on one stream at the same time, up to    *)
(* NumSenders of them, over a transport that may fail a write, while       *)
(* another caller closes the stream.                                       *)
(***************************************************************************)
\* Send calls begun on the stream.
WriterBudget == Len(sends) + Cardinality(Writers) < MaxSends

ConcurrentSends ==
    \/ \E p \in Senders :
          WriterBudget /\ kind = "tts"
              /\ SendEnter(p, "SendText", [type |-> "text", text |-> "Hello"])
    \/ \E p \in Senders :
          WriterBudget /\ kind = "stt"
              /\ SendEnter(p, "SendAudio", [type |-> "audio", audio |-> EncodeToString(BytesAB)])
    \/ \E p \in Senders :
          WriterBudget /\ SendEnter(p, "SendEndOfStream", [type |-> msgTypeEndOfStream])
    \/ \E p \in Senders, ok \in BOOLEAN : SendReturn(p, ok)

NextWriters == ConcurrentSends \/ CloseAlone

SpecWriters == Init /\ [][NextWriters]_vars


(***************************************************************************)
(* Properties.                                                             *)
(***************************************************************************)
\* The positions of recvd that hold a frame taking the ready branch.
ReadyFrames == { i \in 1..Len(recvd) : Route(kind, recvd[i]) = "ready" }

\* The dispatcher has passed the store of the ready data of some Ready frame.
ReadyCaptured == IF kind = "stt" THEN readyInfo # Nil ELSE ReadyFrames # {}

\* C1: the ready signal is closed at most once, whatever frames and read
\* failures handleMessages processes.
ReadyClosedAtMostOnce == closes["ready"] <= 1

\* A session that was signalled ready and then ended on an error.
ReadyThenErrorExit ==
    /\ closes["ready"] = 1
    /\ ReadyFrames # {}
    /\ err # Nil
    /\ dpc = "exited"

\* C2: two WaitReady calls that both return through the ready signal return
\* the same outcome.
WaitReadySameOutcome ==
    \A i, j \in 1..Len(waits) :
        (i < j /\ ~waits[i].ctx /\ ~waits[j].ctx) => waits[i] = waits[j]

\* C3: the ready data is never captured while the error register is set.
ReadyXorError == ~(ReadyCaptured /\ err # Nil)

\* C4: when handleMessages has returned, the ready signal is closed.
ReadyResolvedAtExit == dpc \in {"defer", "exited"} => IsClosed("ready")

\* C5: every result channel is closed at most once, only once the dispatcher
\* has left its read loop, and exactly once when it has exited; no send or
\* close ever panics; channels the stream does not own are never closed.
ChannelsClosedOnceAfterLastRead ==
    /\ ~panicked
    /\ \A c \in ResultChans(kind) :
        /\ closes[c] <= 1
        /\ IsClosed(c) => dpc \in {"defer", "exited"}
        /\ dpc = "exited" => closes[c] = 1
    /\ \A c \in AllChans \ (ResultChans(kind) \cup {"ready", "done"}) : closes[c] = 0

\* A dispatcher that published an item and has exited with its channels closed.
ExitedAfterPublish ==
    /\ dpc = "exited"
    /\ \E c \in ResultChans(kind) : buf[c] # << >> /\ closes[c] = 1

\* The frames read so far are well-formed items of category r alone, followed
\* by end_of_stream when eos is TRUE.
OnlyCategory(r, eos) ==
    LET n == IF eos THEN Len(recvd) - 1 ELSE Len(recvd)
    IN  /\ n >= 0
        /\ eos => Route(kind, recvd[Len(recvd)]) = "end_of_stream"
        /\ \A i \in 1..n : Route(kind, recvd[i]) = r /\ Decode(r, recvd[i]).ok

\* The results of the first n frames, all of category r, in arrival order.
ItemsOf(r, n) == [i \in 1..n |-> Decode(r, recvd[i]).value]

\* C6, as claimed: after N items of one category and end_of_stream, a caller that
\* has seen the category's channel closed has received exactly the N items.
DrainYieldsEveryItem ==
    \A r \in Categories(kind) :
        (OnlyCategory(r, TRUE) /\ sawClosed[CategoryChan(r)])
            => got[CategoryChan(r)] = ItemsOf(r, Len(recvd) - 1)

\* C6, amended: the same for N up to the capacity of the category's channel;
\* until then the items received and the items still buffered are, together,
\* the items that arrived, in arrival order.
DrainYieldsEveryItemWithinCapacity ==
    \A r \in Categories(kind) :
        LET c == CategoryChan(r)
        IN  /\ (OnlyCategory(r, FALSE) /\ Len(recvd) <= Cap(c))
                => got[c] \o buf[c] = ItemsOf(r, Len(recvd))
            /\ (OnlyCategory(r, TRUE) /\ Len(recvd) - 1 <= Cap(c))
                => /\ got[c] \o buf[c] = ItemsOf(r, Len(recvd) - 1)
                   /\ sawClosed[c] => got[c] = ItemsOf(r, Len(recvd) - 1)

\* A caller that has drained as many end_text items as endTextCh holds and then
\* seen the channel closed.
DrainedFullChannel ==
    /\ OnlyCategory("end_text", TRUE)
    /\ Len(recvd) - 1 = EndTextChCap
    /\ Len(got["endTextCh"]) = EndTextChCap
    /\ sawClosed["endTextCh"]

\* The step reads a well-formed frame of category r and publishes its result.
CategoryPublish(r) ==
    /\ dpc = "read"
    /\ Len(recvd') = Len(recvd) + 1
    /\ Route(kind, recvd'[Len(recvd')]) = r
    /\ Decode(r, recvd'[Len(recvd')]).ok

\* The step is the publish to allMsgCh.
AllPublish == dpc = "pubAll" /\ dpc' # "pubAll"

DropStep ==
    /\ \A r \in Categories(kind) :
        (CategoryPublish(r) /\ Len(buf[CategoryChan(r)]) = Cap(CategoryChan(r)))
            => /\ buf'[CategoryChan(r)] = buf[CategoryChan(r)]
               /\ dpc' = IF kind = "stt" THEN "pubAll" ELSE "read"
               /\ ~panicked'
    /\ (AllPublish /\ Len(buf["allMsgCh"]) = Cap("allMsgCh"))
            => /\ buf'["allMsgCh"] = buf["allMsgCh"]
               /\ dpc' = "read"
               /\ ~panicked'

PublishEnabled ==
    /\ dpc = "pubAll" => ENABLED PublishAll
    /\ dpc = "read" =>
        \A r \in Categories(kind) : ENABLED HandleItem(FloodFrame(r, Len(recvd)))

\* C7: a publish is always possible; on a full channel it leaves the channel's
\* queue as it was, discarding the new item, and the dispatcher goes on to its
\* next step.
PublishDropsNewestOnFull == []PublishEnabled /\ [][DropStep]_vars

\* The dispatcher is back at its read with a full channel that dropped an item.
DroppedOnFull ==
    /\ dpc = "read"
    /\ \E c \in ResultChans(kind) : drops[c] > 0 /\ Len(buf[c]) = Cap(c)

\* SpecFlood with a dispatcher goroutine that is scheduled, and a server that
\* goes on sending until it has ended the stream or dropped the connection.
SpecFloodFair == SpecFlood /\ WF_vars(FloodDispatcher)

QueuedStep ==
    \A r \in Categories(kind) :
        (CategoryPublish(r) /\ Len(buf[CategoryChan(r)]) < Cap(CategoryChan(r)))
            => buf'[CategoryChan(r)] =
                   Append(buf[CategoryChan(r)], Decode(r, recvd'[Len(recvd')]).value)

\* C8: with or without a caller receiving, the dispatcher reaches its exit and
\* Done is closed; an item whose own channel has room is queued there whatever
\* the other channels hold.
NeverStalls == <>(dpc = "exited" /\ IsClosed("done")) /\ [][QueuedStep]_vars

\* A session nobody received from, ended with Done closed, in which endTextCh
\* was full and dropped items while textCh took the text that followed.
ExitedUndrained ==
    /\ dpc = "exited"
    /\ IsClosed("done")
    /\ \A c \in AllChans : got[c] = << >>
    /\ drops["endTextCh"] > 0
    /\ buf["textCh"] # << >>

\* C9: when the dispatcher ended on a well-formed error frame and no Ready frame
\* came before it, every WaitReady that returns through the ready signal
\* returns the frame's message and code, and no ready info.
WaitReadyReturnsErrorFrame ==
    LET n == Len(recvd)
    IN  (n > 0 /\ Route(kind, recvd[n]) = "error" /\ recvd[n].bad = {} /\ ReadyFrames = {})
            => \A i \in 1..Len(waits) :
                   ~waits[i].ctx =>
                       /\ waits[i].err = << [Message |-> recvd[n].message,
                                             Code |-> recvd[n].code] >>
                       /\ waits[i].info = Nil

\* A WaitReady that returned after an error frame that was the first frame.
WaitedAfterErrorFrame ==
    /\ Len(recvd) = 1
    /\ Route(kind, recvd[1]) = "error"
    /\ recvd[1].bad = {}
    /\ Len(waits) > 0
    /\ ~waits[1].ctx

CtxStep ==
    (Len(waits') > Len(waits) /\ ~IsClosed("ready"))
        => /\ waits' = Append(waits, CtxOutcome)
           /\ UNCHANGED << sessVars, dispVars, recvVars, wpc >>

ReadyStillResolves ==
    ((\E i \in 1..Len(waits) : waits[i].ctx) /\ ReadyFrames # {} /\ dpc # "signal")
        => /\ IsClosed("ready")
           /\ (wpc = "idle" /\ Len(waits) < MaxWaits /\ ~panicked) => ENABLED WaitReadySelect

\* C10: a WaitReady that returns while the ready signal is unresolved returns the
\* context's error and changes nothing in the session; a Ready frame processed
\* afterwards resolves the signal and lets the next WaitReady through.
CtxExpiryLeavesSession == [][CtxStep]_vars /\ []ReadyStillResolves

\* A WaitReady that timed out before the Ready frame, and one that succeeded after it.
TimedOutThenReady ==
    /\ Len(waits) = 2
    /\ waits[1] = CtxOutcome
    /\ ~waits[2].ctx
    /\ waits[2].err = Nil
    /\ Len(recvd) = 1
    /\ dpc = "read"



\* C11: however many Close calls are made on a stream, one after another or
\* at the same time, before, while or after handleMessages returns,
\* conn.Close() is executed at most once, and exactly once as soon as one of
\* the calls has left closeOnce.Do.
ConnClosedExactlyOnce ==
    /\ connCloses <= 1
    /\ connCloses = (IF closeOnce = "done" THEN 1 ELSE 0)
    /\ (conn = "closed") = (connCloses = 1)
    /\ (closeRets # << >> \/ \E p \in Closers : closer[p].pc = "return") => connCloses = 1

\* Two Close calls overlapped, a third followed, and handleMessages has returned.
ClosedConcurrently ==
    /\ Len(closeRets) >= 3
    /\ \E i \in 1..Len(closeRets) : ~closeRets[i].ran /\ ~closeRets[i].after
    /\ \E i \in 1..Len(closeRets) : closeRets[i].after
    /\ connCloses = 1
    /\ dpc = "exited"

\* C12 as stated: every Close call returns nil.
EveryCloseReturnsNil == \A i \in 1..Len(closeRets) : closeRets[i].err = Nil

\* C12: a Close call made after another Close call has returned does not
\* execute conn.Close() and returns nil, whatever handleMessages is doing; a
\* call returns an error only if it is the one that executed conn.Close().
SecondCloseReturnsNil ==
    \A i \in 1..Len(closeRets) :
        /\ closeRets[i].after => closeRets[i].err = Nil /\ ~closeRets[i].ran
        /\ closeRets[i].err # Nil => closeRets[i].ran

\* A Close call returned the error of conn.Close(), and the next one returned nil.
ClosedTwiceAfterCloseError ==
    /\ Len(closeRets) >= 2
    /\ closeRets[1].err # Nil
    /\ closeRets[2].after
    /\ closeRets[2].err = Nil

\* A Send call returns in this step.
SendStep == Len(sends') = Len(sends) + 1

\* C13: a SendText, SendAudio or SendEndOfStream call made after a Close call
\* has returned returns an error and writes no frame to the connection.
SendAfterCloseFails ==
    [][SendStep /\ closeRets # << >> =>
          /\ sends'[Len(sends')].err # Nil
          /\ outbound' = outbound]_vars

\* A Send call succeeded before Close and a Send call failed after it.
SentAfterClose ==
    /\ Len(sends) = 2
    /\ ~sends[1].closed /\ sends[1].err = Nil
    /\ sends[2].closed /\ sends[2].err # Nil
    /\ Len(outbound) = 2

\* The decoded payloads of the audio frames received, in arrival order.
AudioPayloads ==
    LET IsAudio(f) == Route(kind, f) = "audio" /\ Decode("audio", f).ok
        frames == SelectSeq(recvd, IsAudio)
    IN  [i \in 1..Len(frames) |-> Decode("audio", frames[i]).value]

\* The Text fields of the text segments received, in arrival order.
TextFields ==
    LET IsText(f) == Route(kind, f) = "text" /\ Decode("text", f).ok
        frames == SelectSeq(recvd, IsText)
    IN  [i \in 1..Len(frames) |-> Decode("text", frames[i]).value.Text]

\* The concatenation of a sequence of byte strings.
RECURSIVE Concatenation(_)
Concatenation(ss) == IF ss = << >> THEN << >> ELSE Head(ss) \o Concatenation(Tail(ss))

\* The strings of ts with one space between consecutive ones.
RECURSIVE SpaceSeparated(_)
SpaceSeparated(ts) ==
    IF ts = << >> THEN ""
    ELSE IF Tail(ts) = << >> THEN Head(ts)
    ELSE Head(ts) \o " " \o SpaceSeparated(Tail(ts))

\* Call i returned a result, from a session that ended without an error and
\* whose aggregated channel never overflowed.
CleanResult(i) ==
    /\ ~collects[i].ctx
    /\ err = Nil
    /\ drops[CollectChan(kind)] = 0

\* No call before call i took an item from the channel.
FirstTaker(i) == \A j \in 1..(i - 1) : collects[j].taken = 0

\* C14: when a TTS session ends without an error and audioCh never
\* overflowed, a Collect call that is the first to take chunks from the
\* channel returns the decoded payloads of all audio frames received,
\* concatenated in arrival order: "abcd" for "ab", "cd", an empty buffer for
\* no audio frame.
CollectReturnsConcatenation ==
    kind = "tts" =>
        \A i \in 1..Len(collects) :
            CleanResult(i) /\ FirstTaker(i) =>
                /\ collects[i].err = Nil
                /\ collects[i].result # Nil
                /\ collects[i].result[1].RawData = Concatenation(AudioPayloads)
                /\ AudioPayloads = << BytesAB, BytesCD >> =>
                       collects[i].result[1].RawData = << 97, 98, 99, 100 >>
                /\ AudioPayloads = << >> => collects[i].result[1].RawData = << >>

\* Collect returned "abcd" after the frames "ab", "cd" and end_of_stream.
CollectedABCD ==
    /\ kind = "tts"
    /\ AudioPayloads = << BytesAB, BytesCD >>
    /\ \E i \in 1..Len(collects) :
          /\ CleanResult(i)
          /\ collects[i].result # Nil
          /\ collects[i].result[1].RawData = << 97, 98, 99, 100 >>

\* C15: when an STT session ends without an error and textCh never
\* overflowed, a CollectText call that is the first to take segments from the
\* channel returns the Text fields of all text segments received, in arrival
\* order, with exactly one space between consecutive ones: "Hello world" for
\* "Hello", "world", the empty string for no segment.
CollectTextReturnsJoined ==
    kind = "stt" =>
        \A i \in 1..Len(collects) :
            CleanResult(i) /\ FirstTaker(i) =>
                /\ collects[i].err = Nil
                /\ collects[i].result = << SpaceSeparated(TextFields) >>
                /\ TextFields = << "Hello", "world" >> =>
                       collects[i].result = << "Hello world" >>
                /\ TextFields = << >> => collects[i].result = << "" >>

\* CollectText returned "Hello world" after the segments "Hello", "world".
CollectedHelloWorld ==
    /\ kind = "stt"
    /\ TextFields = << "Hello", "world" >>
    /\ \E i \in 1..Len(collects) : CleanResult(i) /\ collects[i].result = << "Hello world" >>

\* handleMessages stopped reading because of an error frame or a failed read.
TerminatedByFailure ==
    \/ readErr
    \/ recvd # << >> /\ Route(kind, recvd[Len(recvd)]) = "error"

\* The error that failure records.
FailureValue == IF readErr THEN ReadErrorValue ELSE ErrorOf(recvd[Len(recvd)])

\* C16: when handleMessages ends because of an error frame or a failed read,
\* the error is in the register before any result channel is closed, and every
\* Collect / CollectText call that sees the closure returns that error and no
\* data, whatever it received before.
CollectReturnsRecordedError ==
    TerminatedByFailure =>
        /\ (\E c \in ResultChans(kind) : IsClosed(c)) => err = << FailureValue >>
        /\ \A i \in 1..Len(collects) :
              ~collects[i].ctx =>
                  /\ collects[i].err = << FailureValue >>
                  /\ collects[i].result = Nil

\* A call that had received items returned the error of the failure.
CollectedThenFailed ==
    /\ TerminatedByFailure
    /\ \E i \in 1..Len(collects) :
          ~collects[i].ctx /\ collects[i].taken > 0 /\ collects[i].err # Nil

\* Every call before call i ended on its context.
AfterDeadlinesOnly(i) == \A j \in 1..(i - 1) : collects[j].ctx

\* C17: a Collect / CollectText call that ends on its context leaves the
\* result channels as they would be without it: a later call on a session
\* that ended without an error and without overflow still returns every item.
CollectAfterDeadlineReturnsAll ==
    \A i \in 1..Len(collects) :
        CleanResult(i) /\ AfterDeadlinesOnly(i) =>
            /\ collects[i].result # Nil
            /\ kind = "tts" => collects[i].result[1].RawData = Concatenation(AudioPayloads)
            /\ kind = "stt" => collects[i].result = << SpaceSeparated(TextFields) >>

\* C18: Stream returns an error and no stream when the dial fails or the
\* write of the setup message fails; after a failed write the connection has
\* been closed, once, and handleMessages was never started; after a failed
\* dial there is no connection to close.
StreamFailureReleasesConn ==
    stream # Nil =>
        /\ conn = "nil" =>
              /\ stream = << Failed(DialError) >>
              /\ connCloses = 0
        /\ conn # "nil" /\ outbound = << >> =>
              /\ stream = << Failed(SetupError) >>
              /\ conn = "closed"
              /\ connCloses = 1
        /\ ~HasStream =>
              /\ ~stream[1].handle
              /\ stream[1].err # Nil
              /\ dpc = "none"
              /\ recvd = << >>
              /\ defers = << >>
              /\ closeRets = << >>
        /\ HasStream => outbound # << >> /\ outbound[1].type = "setup"

\* Stream has returned after a failed write of the setup message.
SetupWriteFailed ==
    /\ stream = << Failed(SetupError) >>
    /\ conn = "closed"
    /\ outbound = << >>

\* ReadMessage returns a frame in this step.
ReadStep == Len(recvd') = Len(recvd) + 1

\* The frame that step reads.
FrameRead == recvd'[Len(recvd')]

\* The step leaves the session as it was and handleMessages at its next read.
Discarded ==
    /\ dpc' = "read"
    /\ UNCHANGED << sessVars, readySignaled, item, defers, readErr >>

\* C19: a frame of a recognized type (ready, audio, text, step, end_text,
\* error) whose payload does not unmarshal is dropped: the ready signal, the
\* ready data, the error register and the result channels are unchanged and
\* handleMessages goes on to its next read.
MalformedRecognizedDiscarded ==
    [][ReadStep /\ Route(kind, FrameRead) \notin {"continue", "end_of_stream"}
                /\ UnmarshalErr(FrameRead)
           => Discarded]_vars

\* C20: a frame that is not an envelope, or has an unrecognized type, or (TTS)
\* is an audio frame whose payload is not base64, is dropped: no session
\* state changes, no error is recorded, and handleMessages goes on to its
\* next read.
UndecodableDiscarded ==
    [][ReadStep /\ \/ ~FrameRead.env
                   \/ Route(kind, FrameRead) = "continue"
                   \/ /\ Route(kind, FrameRead) = "audio"
                      /\ ~UnmarshalErr(FrameRead)
                      /\ DecodeString(FrameRead.audio).err
           => Discarded]_vars

\* An audio frame that is not base64 and a frame that is not an envelope were
\* read, and the session then ended on end_of_stream with nothing published
\* and no error.
DiscardedThenEnded ==
    /\ kind = "tts"
    /\ Len(recvd) = 3
    /\ Route(kind, recvd[1]) = "audio" /\ DecodeString(recvd[1].audio).err
    /\ ~recvd[2].env
    /\ recvd[3] = EndOfStream
    /\ dpc = "exited"
    /\ err = Nil
    /\ buf["audioCh"] = << >>

\* C21: the error register is nil until handleMessages meets an error frame
\* or a failed read, then holds the error of that failure; no later step
\* replaces or clears it, and a setError call made then would leave it as it is.
ErrorRegisterWriteOnce ==
    [][/\ err # Nil => err' = err
       /\ err # Nil => setError(ReadErrorValue) = err
       /\ err' # Nil => TerminatedByFailure' /\ err' = << FailureValue' >>]_vars

\* The register still holds an error after handleMessages has returned and
\* WaitReady has been called twice.
ErrorKeptToTheEnd ==
    /\ err # Nil
    /\ dpc = "exited"
    /\ Len(waits) = 2

\* C22: when done is closed, every result channel of the stream is closed
\* already, each of them once, and done is closed once.
DoneClosedLast ==
    /\ closes["done"] <= 1
    /\ IsClosed("done") => \A c \in ResultChans(kind) : closes[c] = 1
    /\ dpc = "exited" => IsClosed("done")

\* An STT stream has returned from handleMessages with done closed.
DoneClosedSTT ==
    /\ kind = "stt"
    /\ dpc = "exited"
    /\ IsClosed("done")

\* The results of the well-formed frames of category r, in the order read.
WireItems(r) ==
    LET IsItem(f) == Route(kind, f) = r /\ Decode(r, f).ok
        frames == SelectSeq(recvd, IsItem)
    IN  [i \in 1..Len(frames) |-> Decode(r, frames[i]).value]

\* s is t with some of its elements left out.
IsSubsequence(s, t) ==
    LET RECURSIVE Match(_, _)
        Match(i, j) ==
            IF i > Len(s) THEN TRUE
            ELSE IF j > Len(t) THEN FALSE
            ELSE IF s[i] = t[j] THEN Match(i + 1, j + 1)
            ELSE Match(i, j + 1)
    IN  Match(1, 1)

\* C23: in each category, the items the caller has received from the
\* category's channel, followed by the items still buffered in it, are the
\* items of that category in wire order with some of them left out: nothing
\* is reordered or delivered twice.
DeliveredInWireOrder ==
    \A r \in OrderCategories(kind) :
        IsSubsequence(got[CategoryChan(r)] \o buf[CategoryChan(r)], WireItems(r))

\* The caller has received an item that arrived after a dropped one.
ReceivedPastDrop ==
    \E r \in OrderCategories(kind) :
        /\ drops[CategoryChan(r)] > 0
        /\ \E i \in 1..Len(got[CategoryChan(r)]) : got[CategoryChan(r)][i] # WireItems(r)[i]

\* The results of the well-formed text, step and end_text frames, in the
\* order read.
StructuredItems ==
    LET IsItem(f) ==
            /\ Route(kind, f) \in {"text", "step", "end_text"}
            /\ Decode(Route(kind, f), f).ok
        frames == SelectSeq(recvd, IsItem)
    IN  [i \in 1..Len(frames) |-> Decode(Route(kind, frames[i]), frames[i]).value]

\* C24: while allMsgCh drops nothing, the items received from it, then the
\* items buffered in it, then the item handleMessages is about to publish to
\* it, are the results of all text, step and end_text frames read, one per
\* frame, in wire order; after end_of_stream the channel is closed, and a
\* caller that has seen it closed has received them all.
AllMirrorsWireOrder ==
    kind = "stt" /\ drops["allMsgCh"] = 0 =>
        /\ got["allMsgCh"] \o buf["allMsgCh"] \o (IF dpc = "pubAll" THEN item ELSE << >>)
              = StructuredItems
        /\ dpc = "exited" => IsClosed("allMsgCh")
        /\ sawClosed["allMsgCh"] => got["allMsgCh"] = StructuredItems

\* A step, an end_text and a text frame arrived in that order, then
\* end_of_stream, and the caller drained the unified channel to its close.
AllDrainedAcrossCategories ==
    /\ kind = "stt"
    /\ Len(recvd) = 4
    /\ Route(kind, recvd[1]) = "step"
    /\ Route(kind, recvd[2]) = "end_text"
    /\ Route(kind, recvd[3]) = "text"
    /\ sawClosed["allMsgCh"]
    /\ Len(got["allMsgCh"]) = 3

\* handleMessages has left through the read-error path and finished.
CancelledByReadError ==
    /\ readErr
    /\ err = << ReadErrorValue >>
    /\ IsClosed("ready")
    /\ \A c \in ResultChans(kind) : IsClosed(c)
    /\ IsClosed("done")

\* C25: once the connection is closed under a handleMessages that is at its
\* read, no frame is read any more; the read fails, the read error is
\* recorded, ready is closed if it was not, every result channel is closed
\* and in the end done is closed.
CloseCancelsDispatcher ==
    /\ [][conn = "closed" => ~ReadStep]_vars
    /\ (conn = "closed" /\ dpc = "read") ~> CancelledByReadError

\* Close has returned while handleMessages is at its read, before any ready.
ClosedWhileReading ==
    /\ closeRets # << >>
    /\ conn = "closed"
    /\ dpc = "read"
    /\ ~IsClosed("ready")

\* C28: handleMessages runs only after a first outbound frame that is the
\* setup frame, and that frame stays the first; the write of the setup frame
\* comes before handleMessages is started and carries the caller's ModelName,
\* or "default" when the caller left ModelName empty.
SetupFrameFirst ==
    /\ [](dpc # "none" => outbound # << >> /\ outbound[1].type = "setup")
    /\ [][outbound # << >> => outbound' # << >> /\ outbound'[1] = outbound[1]]_vars
    /\ [][\A p \in Params(kind) :
            StreamSetup(p, TRUE) =>
                /\ dpc = "none" /\ dpc' = "none"
                /\ Len(outbound') = 1
                /\ outbound'[1].type = "setup"
                /\ outbound'[1].model_name =
                      (IF p.ModelName = "" THEN "default" ELSE p.ModelName)]_vars

\* Stream has returned a stream whose setup frame names the default model.
SetupSentWithDefaultModel ==
    /\ HasStream
    /\ dpc # "none"
    /\ outbound[1].model_name = "default"

\* The types of the frames written to the connection, in order.
OutboundTypes == [i \in 1..Len(outbound) |-> outbound[i].type]

\* Create has returned, from a stream that Stream had opened.
CreateReturnedAfterOpen == CreateAt = "returned" /\ HasStream

\* C26: Create writes setup, text and end_of_stream in that order and nothing
\* else; it attempts the text and end_of_stream writes only after WaitReady
\* returned nil, enters Collect only after all three frames are written,
\* runs Close only after one of its steps failed or Collect returned, and
\* whenever it has returned after Stream succeeded the connection is closed.
CreateStepsInOrder ==
    kind = "tts" =>
        /\ OutboundTypes = SubSeq(<< "setup", "text", msgTypeEndOfStream >>, 1, Len(outbound))
        /\ sends # << >> => waits # << >> /\ Succeeded(waits[1])
        /\ Len(waits) <= 1 /\ Len(sends) <= 2 /\ Len(collects) <= 1
        /\ waits # << >> \/ wpc # "idle" => HasStream
        /\ Len(sends) = 2 => sends[1].op = "SendText" /\ sends[1].err = Nil
        /\ kpc # "idle" \/ collects # << >> =>
              /\ OutboundTypes = << "setup", "text", msgTypeEndOfStream >>
              /\ Len(sends) = 2
        /\ closer[1].pc # "idle" \/ closeRets # << >> =>
              \/ ~Succeeded(waits[1])
              \/ SendFailed
              \/ collects # << >>
        /\ CreateReturnedAfterOpen => conn = "closed" /\ connCloses = 1

\* Create has returned the audio Collect gave it, with all three frames written.
CreateReturnedResult ==
    /\ kind = "tts"
    /\ CreateReturnedAfterOpen
    /\ Len(outbound) = 3
    /\ collects # << >>
    /\ collects[1].err = Nil /\ ~collects[1].ctx

\* The audio frames written to the connection, in order.
AudioFramesSent == SelectSeq(outbound, LAMBDA m : m.type = "audio")

\* The bytes a well-formed base64 text s decodes to are this many.
DecodedLen(s) ==
    3 * (Len(s) \div 4)
      - (IF s = << >> THEN 0 ELSE IF s[Len(s) - 1] = Pad THEN 2 ELSE IF s[Len(s)] = Pad THEN 1 ELSE 0)

\* The bytes the audio frames in frames carry, all together.
RECURSIVE PayloadBytes(_)
PayloadBytes(frames) ==
    IF frames = << >> THEN 0
    ELSE DecodedLen(Head(frames).audio) + PayloadBytes(Tail(frames))

\* ceil(n / 3840).
ChunksNeeded(n) == (n + 3839) \div 3840

\* An end_of_stream frame has been written.
EndOfStreamSent == \E i \in 1..Len(outbound) : outbound[i].type = msgTypeEndOfStream

\* Transcribe has returned, from a stream that Stream had opened.
TranscribeReturnedAfterOpen == TranscribeAt = "returned" /\ HasStream

\* Frame m, written after the audio frames in before, carries the next piece
\* of the audio a: at most 3840 bytes, those that follow the bytes carried
\* so far.
NextPiece(a, before, m) ==
    \A d \in { DecodeString(m.audio) } :
        /\ ~d.err
        /\ \A piece \in { << >> \o d.bytes } :
              LET sent == PayloadBytes(before)
              IN  /\ Len(piece) >= 1
                  /\ Len(piece) <= 3840
                  /\ sent + Len(piece) <= Len(a)
                  /\ piece = SubSeq(a, sent + 1, sent + Len(piece))

\* C27: after the setup frame Transcribe writes audio frames only, then at
\* most one end_of_stream frame, which is the last; every audio frame carries
\* at most 3840 bytes, namely the bytes of the input that follow those the
\* frames before it carry; when end_of_stream is written the audio frames
\* carry the whole input and are ceil(len/3840) frames; after a send that
\* failed nothing more is sent; and whenever Transcribe has returned after
\* Stream succeeded the connection is closed.
TranscribeSendsChunks ==
    /\ [](kind = "stt" /\ audioArg # Nil =>
            /\ \A i \in 2..Len(outbound) :
                  \/ outbound[i].type = "audio"
                  \/ outbound[i].type = msgTypeEndOfStream /\ i = Len(outbound)
            /\ \A i \in 1..Len(sends) : sends[i].err # Nil => i = Len(sends)
            /\ SendFailed => Len(outbound) = Len(sends)
            /\ SendFailed /\ sends[Len(sends)].op = "SendAudio" => ~EndOfStreamSent
            /\ sends # << >> => Succeeded(waits[1])
            /\ kpc # "idle" \/ collects # << >> => EndOfStreamSent
            /\ TranscribeReturnedAfterOpen => conn = "closed" /\ connCloses = 1
            /\ TranscribeAt = "returned" => conn # "open")
    /\ [][kind = "stt" /\ outbound # << >> /\ outbound' # outbound =>
            LET m == outbound'[Len(outbound')]
            IN  /\ outbound' = Append(outbound, m)
                /\ m.type = "audio" => NextPiece(audioArg[1], AudioFramesSent, m)
                /\ m.type = msgTypeEndOfStream =>
                      /\ PayloadBytes(AudioFramesSent) = Len(audioArg[1])
                      /\ Len(AudioFramesSent) = ChunksNeeded(Len(audioArg[1]))]_vars

\* Transcribe has returned a transcript after sending a full chunk, a last
\* chunk of one byte and end_of_stream.
TranscribedTwoChunks ==
    /\ kind = "stt"
    /\ TranscribeReturnedAfterOpen
    /\ Len(audioArg[1]) = 3841
    /\ Len(outbound) = 4
    /\ collects # << >>
    /\ collects[1].err = Nil /\ ~collects[1].ctx

\* The fields of the ready frame f, as the server wrote them.
FieldsOf(f) ==
    [RequestID |-> f.request_id, ModelName |-> f.model_name, SampleRate |-> f.sample_rate,
     FrameSize |-> f.frame_size, DelayInTokens |-> f.delay_in_tokens,
     TextStreamNames |-> f.text_stream_names]

\* The last ready frame handleMessages has processed.
LastReady == recvd[CHOOSE i \in ReadyFrames : \A j \in ReadyFrames : j <= i]

\* C29: ReadyInfo() is nil as long as handleMessages has processed no ready
\* frame; afterwards it is an info holding the fields of the ready frame
\* processed last, and a WaitReady that returned success returned an info
\* holding the fields of a ready frame processed by then.
ReadyInfoMirrorsReadyFrame ==
    kind = "stt" =>
        /\ ReadyFrames = {} => readyInfo = Nil
        /\ ReadyFrames # {} => readyInfo = << FieldsOf(LastReady) >>
        /\ \A i \in 1..Len(waits) :
              Succeeded(waits[i]) =>
                  \E j \in ReadyFrames : waits[i].info = << FieldsOf(recvd[j]) >>

\* The header is a number of seconds: digits only, at least one.
IsSeconds(h) == h # << >> /\ \A i \in 1..Len(h) : h[i] \in {"0", "7"}

\* The number a header of digits 0 and 7 denotes.
Seconds(h) ==
    LET d(c) == IF c = "7" THEN 7 ELSE 0
    IN  IF Len(h) = 1 THEN d(h[1])
        ELSE IF Len(h) = 2 THEN 10 * d(h[1]) + d(h[2])
        ELSE 100 * d(h[1]) + 10 * d(h[2]) + d(h[3])

\* The error kind of each status.
KindOfStatus(st) ==
    CASE st = 422 -> "ValidationError"
      [] st = 401 \/ st = 403 -> "AuthenticationError"
      [] st = 404 -> "NotFoundError"
      [] st = 429 -> "RateLimitError"
      [] OTHER -> IF st >= 500 THEN "InternalServerError" ELSE "APIError"

\* C30: once handleAPIError has returned, what it returned is not nil and is
\* the error kind of the response's status: ValidationError for 422,
\* AuthenticationError for 401 and 403, NotFoundError for 404, RateLimitError
\* for 429, whose RetryAfter is 0 without a Retry-After header and the
\* header's number of seconds when it is one, InternalServerError from 500
\* up, and APIError carrying the status for every other status.
APIErrorKindByStatus ==
    apiErr # Nil =>
        /\ apiErr[1] # Nil
        /\ LET r == resp[1]
               e == apiErr[1][1]
           IN  /\ e.Type = KindOfStatus(r.StatusCode)
               /\ e.Type = "APIError" => e.Status = r.StatusCode
               /\ e.Type = "RateLimitError" =>
                     /\ r.RetryAfter = << >> => e.RetryAfter = 0
                     /\ IsSeconds(r.RetryAfter) => e.RetryAfter = Seconds(r.RetryAfter)

\* handleAPIError has returned for a 429 whose Retry-After header is "70".
RateLimitedFor70Seconds ==
    /\ apiErr # Nil
    /\ resp[1].StatusCode = 429
    /\ resp[1].RetryAfter = << "7", "0" >>
    /\ apiErr[1][1].RetryAfter = 70

\* C31: once handleMessages has processed a ready frame, the stored ready
\* data (readyInfo of an STT stream, requestID of a TTS stream) stays as it
\* is, whatever ready frames follow.
ReadyDataImmutable ==
    [][ReadyFrames # {} => readyInfo' = readyInfo /\ requestID' = requestID]_vars

\* C32: no channel holds more than 100 items, and a channel nobody receives
\* from holds the first 100 items of its category that arrived, or all of
\* them while they are fewer: the 101st is the first one dropped.
EveryChannelHolds100 ==
    /\ \A c \in ResultChans(kind) : Len(buf[c]) <= 100
    /\ \A r \in OrderCategories(kind) :
          LET c == CategoryChan(r)
              n == IF Len(recvd) < 100 THEN Len(recvd) ELSE 100
          IN  (OnlyCategory(r, FALSE) /\ got[c] = << >>) => buf[c] = ItemsOf(r, n)

\* What a non-blocking publish of v leaves in a channel of capacity n that
\* held q.
Attempted(q, n, v) == IF Len(q) < n THEN Append(q, v) ELSE q

\* The lifecycle of handleMessages is as it was.
LifecycleUnchanged ==
    UNCHANGED << readySignaled, readyInfo, requestID, err, closes, defers, readErr, panicked >>

\* C33: for a well-formed structured item handleMessages attempts the publish
\* to the item's own channel and then, whether or not that one dropped the
\* item, the publish to allMsgCh, whose outcome depends on the room in
\* allMsgCh alone; neither changes the other channels or the lifecycle, and
\* after the second handleMessages is at its next read.
PublishesAreIndependent ==
    /\ [][\A r \in {"text", "step", "end_text"} :
            CategoryPublish(r) =>
                LET v == Decode(r, FrameRead).value
                    c == CategoryChan(r)
                IN  /\ buf' = [buf EXCEPT ![c] = Attempted(buf[c], Cap(c), v)]
                    /\ item' = << v >>
                    /\ dpc' = "pubAll"
                    /\ LifecycleUnchanged]_vars
    /\ [][dpc = "pubAll" /\ dpc' # dpc =>
            /\ buf' = [buf EXCEPT !["allMsgCh"] = Attempted(buf["allMsgCh"], 100, item[1])]
            /\ dpc' = "read"
            /\ Len(recvd') = Len(recvd)
            /\ LifecycleUnchanged]_vars
    /\ [](dpc = "pubAll" => ENABLED PublishAll)

\* The result of the frame read last, a well-formed one of category r.
LastItem(r) == Decode(r, recvd[Len(recvd)]).value

\* After a flood of text results that filled allMsgCh, a step result is in
\* vadCh and not in allMsgCh.
InCategoryNotInAll ==
    /\ kind = "stt"
    /\ dpc = "read"
    /\ recvd # << >>
    /\ Route(kind, recvd[Len(recvd)]) = "step"
    /\ drops["vadCh"] = 0
    /\ buf["vadCh"] = << LastItem("step") >>
    /\ Len(buf["allMsgCh"]) = 100
    /\ \A i \in 1..100 : buf["allMsgCh"][i] # LastItem("step")

\* An end_text result that endTextCh had no room for is in allMsgCh.
InAllNotInCategory ==
    /\ kind = "stt"
    /\ dpc = "read"
    /\ recvd # << >>
    /\ Route(kind, recvd[Len(recvd)]) = "end_text"
    /\ drops["allMsgCh"] = 0
    /\ buf["allMsgCh"] # << >>
    /\ buf["allMsgCh"][Len(buf["allMsgCh"])] = LastItem("end_text")
    /\ \A i \in 1..Len(buf["endTextCh"]) : buf["endTextCh"][i] # LastItem("end_text")

\* handleMessages has left its read loop.
Terminated == dpc \in {"errSignal", "defer", "exited"}

\* handleMessages has processed an end_of_stream frame, an error frame or a
\* failed read.
TerminalProcessed ==
    \/ readErr
    \/ recvd # << >> /\ Route(kind, recvd[Len(recvd)]) \in {"end_of_stream", "error"}

\* 1 AwaitingReady, 2 Streaming (a ready frame was processed), 3 Terminated.
Lifecycle == IF Terminated THEN 3 ELSE IF ReadyFrames # {} THEN 2 ELSE 1

\* C34: the lifecycle of handleMessages never moves backwards; it is
\* Terminated exactly when an end_of_stream frame, an error frame or a failed
\* read has been processed, and from then on no frame is read, no channel
\* receives an item and the ready data and the error register stay as they
\* are.
LifecycleForwardOnly ==
    /\ [](Terminated <=> TerminalProcessed)
    /\ [][Lifecycle' >= Lifecycle]_vars
    /\ [][Terminated =>
            /\ ~ReadStep
            /\ Terminated'
            /\ UNCHANGED << recvd, readErr, buf, drops, item, readyInfo, requestID, err >>]_vars

\* handleMessages has exited on an end_of_stream that followed the ready frame,
\* and the connection is still open for the server to send on.
ExitedWithFramesToCome ==
    /\ dpc = "exited"
    /\ Len(recvd) = 2
    /\ Route(kind, recvd[1]) = "ready"
    /\ Route(kind, recvd[2]) = "end_of_stream"
    /\ conn = "open"

(***************************************************************************)
(* SpecSurface: the session of SpecCollect whose server may also send an   *)
(* error frame with an unparsable code, and whose caller calls WaitReady   *)
(* and Collect / CollectText, one call after another.                      *)
(***************************************************************************)
SurfaceFrames(k) == SessionFrames(k) \cup ErrorFrames

\* The server sends at most CloseFrames frames before the one that ends the session.
SurfaceBudget == Len(recvd) < CloseFrames

SurfaceDispatcher ==
    \/ \E f \in SurfaceFrames(kind) : SurfaceBudget /\ HandleContinue(f)
    \/ \E f \in SurfaceFrames(kind) : SurfaceBudget /\ HandleReady(f)
    \/ \E f \in SurfaceFrames(kind) : SurfaceBudget /\ HandleItem(f)
    \/ \E f \in SurfaceFrames(kind) : HandleEndOfStream(f)
    \/ \E f \in SurfaceFrames(kind) : HandleError(f)
    \/ ReadError
    \/ SignalReady
    \/ PublishAll
    \/ ErrorSignal
    \/ RunDefer

\* One caller: it is inside at most one call at a time.
SurfaceCaller ==
    \/ kpc = "idle" /\ WaitReady
    \/ wpc = "idle" /\ Collect

NextSurface == SurfaceDispatcher \/ SurfaceCaller

SpecSurface == Init /\ [][NextSurface]_vars

\* handleMessages has processed an error frame whose payload unmarshals,
\* after a ready frame.
ErrorAfterReady ==
    /\ recvd # << >>
    /\ Route(kind, recvd[Len(recvd)]) = "error"
    /\ recvd[Len(recvd)].bad = {}
    /\ ReadyFrames # {}

\* The WebSocketError of the last frame read.
LastFrameError ==
    [Message |-> recvd[Len(recvd)].message, Code |-> recvd[Len(recvd)].code]

\* C35: once handleMessages has processed an error frame that came after the
\* ready frame, the error register holds that frame's message and code, a
\* WaitReady call finds the ready signal resolved, and every WaitReady that
\* reads the register from then on and every Collect or CollectText that
\* returns from then on, other than on its context, returns that error and
\* nothing else.
MidStreamErrorSurfaces ==
    /\ [](ErrorAfterReady => err = << LastFrameError >> /\ IsClosed("ready"))
    /\ [][(ErrorAfterReady /\ wpc # "return" /\ Len(waits') > Len(waits)
                /\ ~waits'[Len(waits')].ctx)
            => waits'[Len(waits')] = Outcome(<< LastFrameError >>, Nil)]_vars
    /\ [][(ErrorAfterReady /\ wpc = "getError") => wpc' # "return"]_vars
    /\ [][(ErrorAfterReady /\ Len(collects') > Len(collects) /\ ~collects'[Len(collects')].ctx)
            => /\ collects'[Len(collects')].err = << LastFrameError >>
               /\ collects'[Len(collects')].result = Nil]_vars

\* A first WaitReady returned success on the ready frame; after the error
\* frame a second WaitReady and a Collect both returned the error.
SurfacedAtWaitAndCollect ==
    /\ ErrorAfterReady
    /\ Len(waits) = 2
    /\ Succeeded(waits[1])
    /\ waits[2] = Outcome(<< LastFrameError >>, Nil)
    /\ \E i \in 1..Len(collects) :
          ~collects[i].ctx /\ collects[i].err = << LastFrameError >>

\* Close has been called on the stream.
CloseWasCalled == closeRets # << >> \/ \E p \in Closers : closer[p] # NotClosing

\* C36: once handleMessages has reached a Terminated state the connection is
\* eventually closed, whether or not the caller calls Close.
TerminalPathReleasesConnection ==
    Terminated ~> (conn = "closed" \/ CloseWasCalled)

\* C37: nothing serializes the Send operations of one stream: a caller that
\* is not inside the connection write can enter it in every state of a live
\* session, whoever else is inside, and a caller inside it keeps no other
\* caller waiting.
SendsAreNotSerialized ==
    ~panicked =>
        \A p \in Senders :
            writing[p] = Nil =>
                ENABLED SendEnter(p, "SendEndOfStream", [type |-> msgTypeEndOfStream])

\* Two callers are inside conn.WriteJSON on one stream at the same time.
TwoInsideWrite ==
    /\ ~panicked
    /\ writing[1] # Nil
    /\ writing[2] # Nil

\* handleMessages is at its write of the ready data while the caller is at
\* its read of the same field.
ConcurrentAccess == dpc = "store" /\ reader # Nil /\ reader[1].pc = "read"

\* C38: no caller-side read of the stored ready data (RequestID and Collect
\* on TTS, ReadyInfo and WaitReady on STT) is ever at the field while
\* handleMessages is writing it.
ReadyDataGuarded == ~ConcurrentAccess

\* handleMessages has written what a passing WaitReady returns: the ready
\* data of a ready frame, or an error.
OutcomeWritten ==
    \/ err # Nil
    \/ IF kind = "stt" THEN readyInfo # Nil ELSE ReadyFrames # {}

\* C39: handleMessages closes the ready signal only after it has written the
\* ready data or the error, and an STT WaitReady that returns through the
\* signal returns either a ReadyInfo and no error or an error and no
\* ReadyInfo, never neither.
OutcomeBeforeSignal ==
    /\ [][closes'["ready"] # closes["ready"] => OutcomeWritten]_vars
    /\ [](IsClosed("ready") => OutcomeWritten)
    /\ [](kind = "stt" =>
            \A i \in 1..Len(waits) :
                ~waits[i].ctx => ((waits[i].info = Nil) # (waits[i].err = Nil)))

\* An STT WaitReady returned the ReadyInfo, and after a failure a second one
\* returned the error.
WaitedForInfoThenError ==
    /\ kind = "stt"
    /\ Len(waits) = 2
    /\ ~waits[1].ctx /\ waits[1].info # Nil /\ waits[1].err = Nil
    /\ ~waits[2].ctx /\ waits[2].info = Nil /\ waits[2].err # Nil

\* handleMessages left its loop on an end_of_stream frame.
EndedByEndOfStream ==
    recvd # << >> /\ Route(kind, recvd[Len(recvd)]) = "end_of_stream"

\* C40: the error register changes only in the step in which handleMessages
\* processes an error frame or a failed read; once handleMessages has ended
\* on end_of_stream the register is empty and stays empty, whatever happens
\* to the connection, and every Collect / CollectText that returns from
\* then on, other than on its context, returns a result and no error.
RegisterSetOnlyByDispatcher ==
    /\ [][err' # err =>
            /\ dpc = "read" /\ dpc' = "errSignal"
            /\ \/ readErr' /\ ~readErr
               \/ ReadStep /\ Route(kind, FrameRead) = "error"]_vars
    /\ [](EndedByEndOfStream => err = Nil /\ ~readErr)
    /\ [][EndedByEndOfStream => EndedByEndOfStream']_vars
    /\ [][(EndedByEndOfStream /\ Len(collects') > Len(collects)
                /\ ~collects'[Len(collects')].ctx)
            => /\ collects'[Len(collects')].err = Nil
               /\ collects'[Len(collects')].result # Nil]_vars

\* After end_of_stream the caller closed the stream, and a Collect /
\* CollectText that returned after that Close returned success.
CollectedAfterEndAndClose ==
    /\ EndedByEndOfStream
    /\ conn = "closed"
    /\ \E i \in 1..Len(collects) :
          /\ collects[i].closed
          /\ ~collects[i].ctx
          /\ collects[i].err = Nil
          /\ collects[i].result # Nil
====
